---- MODULE Spec2Model ----
(***************************************************************************)
(* A model of the zkvm-jetpack jets of nockchain: Montgomery arithmetic    *)
(* and the tip5 sponge (jets/tip5_jets.rs), the constraint substitution    *)
(* evaluator (jets/mega_jets.rs), the polynomial jets (jets/bp_jets.rs,    *)
(* jets/fp_jets.rs) and the matrix jets (jets/mary_jets.rs); and of the    *)
(* application around them: the mining driver (nockchain/src/mining.rs),   *)
(* the kernel pool (nockchain/src/mining_pool.rs), the memory pools and    *)
(* the bump allocator (hoonc/src/memory_pool.rs) and the streaming prover  *)
(* (hoonc/src/streaming_prover.rs).                                        *)
(*                                                                         *)
(* Width.  The program works on u64 / u128 / usize with the modulus        *)
(* P = 2^64 - 2^32 + 1 and the radix R = 2^64.  TLC's integers have 32     *)
(* bits, so every width is scaled by one parameter, HalfBits (32 in the    *)
(* program): a half word has HalfBits bits, u64 and usize have 2*HalfBits  *)
(* bits, u128 has 4*HalfBits bits, R = 2^(2*HalfBits) and                  *)
(* P = R - 2^HalfBits + 1.  Every wrap and every range check keeps its     *)
(* place relative to these widths.                                         *)
(***************************************************************************)
EXTENDS Integers, Sequences, FiniteSets, TLC

HalfBits == 4

\* 2^32 in the program: R_MOD_P + 1
R_MOD_P1 == 2 ^ HalfBits
\* the Montgomery radix, 2^64 in the program; also the size of u64 and usize
R == R_MOD_P1 * R_MOD_P1
\* the base field modulus, 2^64 - 2^32 + 1 in the program
P == R - R_MOD_P1 + 1
R_MOD_P == R % P
R2 == (R * R) % P
RP == R * P
\* the size of u128
U128 == R * R

VARIABLES
  montPc,        \* position of the Montgomery caller
  montIn,        \* the argument the caller started with
  montVal,       \* the value returned by the last call
  montUnderflow, \* a u128 subtraction of the last call went below zero
  hashPc,           \* position inside hash_varlen_jet
  hashInput,        \* the decoded input list (input_vec before padding)
  input_vec,        \* the padded input
  input_montiplied, \* the padded input in Montgomery form
  input_to_absorb,  \* the part of input_montiplied not yet absorbed
  cnt_q,            \* blocks still to absorb after the current one
  sponge,           \* the 16 lanes
  digest,           \* the result, <<>> until it is read
  spongeLog,        \* history: the sponge after each call of permute
  megaPc,          \* "fold" while the terms are folded, then "ok", "err" or "panic"
  p_list,          \* the (term, coefficient) pairs in the order p_iter yields them
  p_pos,           \* the next pair of p_list
  height,          \* the height argument, a u64
  overflow_checks, \* the build panics on arithmetic overflow (else it wraps)
  acc_vec,         \* the running total
  megaResult,      \* the returned polynomial, <<>> while there is none
  termLens,        \* history: the length of each term value added so far
  metLookupFailure, \* history: the evaluation came to a factor whose lookup fails
  permPc,       \* position inside permutation_jet / hoon_list_to_sponge
  perm_sample,  \* the sample of permutation_jet, a noun
  current,      \* the part of the sample the loop has not read yet
  perm_i,       \* i, the number of heads read
  perm_sponge,  \* the lanes hoon_list_to_sponge fills
  new_sponge,   \* the returned list, <<>> while there is none
  polyPc,     \* "host" while the host may call a polynomial jet, else "idle"
  poly_kind,  \* "bp" for Belt polynomials, "fp" for Felt polynomials
  poly_p,     \* the first polynomial of the sample
  poly_q,     \* the second polynomial of the sample
  polyCalls,  \* the jets called so far, each with its argument and its result
  maryPc,     \* "host" while the host may call a matrix jet, else "idle"
  ma,         \* the mary of the door
  ma2,        \* the mary of the sample (weld)
  maryCalls,  \* the jets called so far, each with its argument and its result
  minePc,        \* "loop" while the mining driver runs its loop, else "idle"
  mineCount,     \* the `mine` effects handled so far; the n-th carries candidate n
  next_attempt,  \* Option<NounSlab>: the queued candidate
  current_attempt,         \* the JoinSet: the attempts spawned and not yet joined
  current_attempt_stop_tx, \* Option<Sender>: the attempt that holds the receiver, 0 when the receiver was dropped
  attemptPc,     \* the position of each attempt's task
  stopSent,      \* send was called on the sender paired with the attempt's stop_rx
  senderDropped, \* the attempts whose sender was dropped without a send
  toPoke,        \* the `command` effects an attempt has still to poke
  minedPokes,    \* history: the `mined` pokes issued, each with stopSent at that time
  replaced,      \* history: the candidates replaced in the queue
  kernel,         \* KernelPool::kernel: None or the pooled kernel
  kernelLock,     \* the caller that holds the lock of the pool, 0 for none
  callerPc,       \* "create" while a caller awaits create_fn, else "idle"
  held,           \* the kernels each caller holds
  kernelsCreated, \* the kernels create_fn has made; the n-th is kernel n
  discarded,      \* the kernels that were dropped
  lastResult,     \* the result of each caller's last get_or_create, 0 for an error
  memPc,        \* "run" while threads use the pools, else "idle"
  SMALL_POOL,   \* VecDeque<Vec<u64>>
  MEDIUM_POOL,
  LARGE_POOL,
  pooled,       \* the PooledVec values alive, one slot each
  memInits,     \* the calls of init_memory_pools so far
  memNews,      \* the calls of PooledVec::new so far
  tblPc,       \* position inside build_table_streaming
  tbl_num_rows, \* num_rows
  tbl_num_cols, \* num_cols
  chunk_size,  \* StreamingProver::chunk_size
  gen,         \* the row generator passed
  chunk_start,
  row_idx,
  chunk_data,
  tbl_result,  \* result, the columns
  genCalls,    \* history: the row indices the generator was called with
  proverPc,       \* position of each thread inside interpolate_streaming
  workspace,      \* the slice each thread got from alloc_slice: the epoch of its allocation
  epoch,          \* the resets of the Bump so far
  interpolations, \* the calls of interpolate_streaming so far
  staleUse        \* history: the threads that worked with a workspace after a reset

montVars == <<montPc, montIn, montVal, montUnderflow>>
hashVars == <<hashPc, hashInput, input_vec, input_montiplied, input_to_absorb,
              cnt_q, sponge, digest, spongeLog>>
megaVars == <<megaPc, p_list, p_pos, height, overflow_checks, acc_vec,
              megaResult, termLens, metLookupFailure>>
permVars == <<permPc, perm_sample, current, perm_i, perm_sponge, new_sponge>>
polyVars == <<polyPc, poly_kind, poly_p, poly_q, polyCalls>>
maryVars == <<maryPc, ma, ma2, maryCalls>>
mineVars == <<minePc, mineCount, next_attempt, current_attempt, current_attempt_stop_tx,
              attemptPc, stopSent, senderDropped, toPoke, minedPokes, replaced>>
jetVars == <<montVars, hashVars, megaVars, permVars, polyVars, maryVars>>
kpoolVars == <<kernel, kernelLock, callerPc, held, kernelsCreated, discarded, lastResult>>
memVars == <<memPc, SMALL_POOL, MEDIUM_POOL, LARGE_POOL, pooled, memInits, memNews>>
tblVars == <<tblPc, tbl_num_rows, tbl_num_cols, chunk_size, gen, chunk_start, row_idx, chunk_data,
             tbl_result, genCalls>>
bumpVars == <<proverPc, workspace, epoch, interpolations, staleUse>>
appVars == <<mineVars, kpoolVars, memVars, tblVars, bumpVars>>
vars == <<jetVars, appVars>>

(***************************************************************************)
(* Montgomery arithmetic                                                   *)
(***************************************************************************)

\* the based! macro: the value is a canonical field element
based(a) == a < P

Panicked == [res |-> 0, underflow |-> FALSE, panic |-> TRUE]

\* parts = [x & (R-1), x >> 64] read back through bitslice_to_u128
bitslice_to_u128(lo, hi) == lo + hi * R

\* a word-sized result that keeps only the subtraction, without adding P back
reduce_diff_no_addback(x2_u128, d_u128) == (x2_u128 - d_u128) % U128

\* lines 178-182: subtract, adding P back on underflow
reduce_diff(x2_u128, d_u128) ==
  IF x2_u128 >= d_u128
    THEN x2_u128 - d_u128
    ELSE (((x2_u128 + P) % U128) - d_u128) % U128

mont_reduction(x) ==
  IF ~(x < RP) THEN Panicked
  ELSE
  LET x_u128 == bitslice_to_u128(x % R, (x \div R) % R)
      x1_u128_div == x_u128 \div R_MOD_P1
      x1_u128 == x1_u128_div % R_MOD_P1
      x2_u128 == x_u128 \div R
      x0_u128 == x_u128 % R_MOD_P1
      c_u128 == ((x0_u128 + x1_u128) * R_MOD_P1) % U128
      f_u128 == c_u128 \div R
      sub_u128 == (x1_u128 + ((f_u128 * P) % U128)) % U128
      d_u128 == (c_u128 - sub_u128) % U128
      res == reduce_diff(x2_u128, d_u128)
  IN [res |-> res % R,
      underflow |-> \/ c_u128 < sub_u128
                    \/ (x2_u128 < d_u128 /\ x2_u128 + P < d_u128),
      panic |-> FALSE]

montiply(a, b) ==
  IF based(a) /\ based(b) THEN mont_reduction(a * b) ELSE Panicked

\* a lift that multiplies by R mod P instead of R^2 mod P
montify_by_r(x) == montiply(x, R_MOD_P)

montify(x) == montiply(x, R2)

MontInit ==
  /\ \/ montPc = "mont_reduction" /\ montIn \in 0..(U128 - 1)
     \/ montPc = "montify" /\ montIn \in 0..(R - 1)
  /\ montVal = 0
  /\ montUnderflow = FALSE

MontIdle ==
  /\ montPc = "idle"
  /\ montIn = 0
  /\ montVal = 0
  /\ montUnderflow = FALSE

MontReturn(r, next, panicked) ==
  /\ montPc' = IF r.panic THEN panicked ELSE next
  /\ montVal' = r.res
  /\ montUnderflow' = r.underflow
  /\ UNCHANGED montIn

\* mont_reduction_jet on a u128 argument
MontReductionJet ==
  /\ montPc = "mont_reduction"
  /\ MontReturn(mont_reduction(montIn), "reduced", "reduction_panic")
  /\ UNCHANGED <<hashVars, megaVars, permVars, polyVars, maryVars, appVars>>

\* the round trip: montify(x), then montiply(_, R mod P), then mont_reduction
MontifyJet ==
  /\ montPc = "montify"
  /\ MontReturn(montify(montIn), "montiply", "round_trip_panic")
  /\ UNCHANGED <<hashVars, megaVars, permVars, polyVars, maryVars, appVars>>

MontiplyJet ==
  /\ montPc = "montiply"
  /\ MontReturn(montiply(montVal, R_MOD_P), "reduce_back", "round_trip_panic")
  /\ UNCHANGED <<hashVars, megaVars, permVars, polyVars, maryVars, appVars>>

MontReduceBack ==
  /\ montPc = "reduce_back"
  /\ MontReturn(mont_reduction(montVal), "round_trip_done", "round_trip_panic")
  /\ UNCHANGED <<hashVars, megaVars, permVars, polyVars, maryVars, appVars>>

MontNext == MontReductionJet \/ MontifyJet \/ MontiplyJet \/ MontReduceBack

(***************************************************************************)
(* The tip5 sponge                                                         *)
(***************************************************************************)

STATE_SIZE == 16
RATE == 10
DIGEST_LENGTH == 5

MaxInputLen == 21

Zeros(n) == [i \in 1..n |-> 0]

\* The fixed round function is a primitive of another module; it is modelled
\* as one fixed function of the 16 lanes that mixes every lane with its
\* neighbour.
permute(s) ==
  [i \in 1..STATE_SIZE |-> (s[i] + 2 * s[(i % STATE_SIZE) + 1] + i) % P]

\* a padding that pushes one zero too many
PadZerosNoMinusOne(r) == RATE - r

\* the number of zeros pushed after the 1, line 62
PadZeros(r) == (RATE - r) - 1

\* for _i in 0..(RATE - r) - 1 { input_vec.push(Belt(0)) }
RECURSIVE PushZeros(_, _)
PushZeros(v, n) == IF n <= 0 THEN v ELSE PushZeros(Append(v, 0), n - 1)

\* sponge[copy_pos] = input[copy_pos] for copy_pos in 0..RATE, then permute
absorb_rate(sp, input) ==
  permute([i \in 1..STATE_SIZE |-> IF i <= RATE THEN input[i] ELSE sp[i]])

\* input_to_absorb.split_at(RATE)
scag(v) == SubSeq(v, 1, RATE)
\* a loop that never moves on to the rest
slag_stuck(v) == v

slag(v) == SubSeq(v, RATE + 1, Len(v))

\* The lists the jet is called with: arithmetic progressions of u64 atoms,
\* canonical or not.
HashInputs ==
  { [i \in 1..L |-> (a + b * i) % R] :
      L \in 0..MaxInputLen, a \in {0, 1, P - 1, R - 1}, b \in {0, 1, 7} }

HashStart ==
  /\ input_vec = <<>>
  /\ input_montiplied = <<>>
  /\ input_to_absorb = <<>>
  /\ cnt_q = 0
  /\ sponge = Zeros(STATE_SIZE)
  /\ digest = <<>>
  /\ spongeLog = <<>>

HashInit ==
  /\ hashPc = "pad"
  /\ hashInput \in HashInputs
  /\ HashStart

HashIdle ==
  /\ hashPc = "idle"
  /\ hashInput = <<>>
  /\ HashStart

\* lines 55-64: the based! assertions and the padding
HashPad ==
  /\ hashPc = "pad"
  /\ IF \E i \in 1..Len(hashInput) : ~based(hashInput[i])
       THEN /\ hashPc' = "panic"
            /\ UNCHANGED <<input_vec, cnt_q>>
       ELSE LET lent_input == Len(hashInput)
                q == lent_input \div RATE
                r == lent_input % RATE
            IN /\ input_vec' = PushZeros(Append(hashInput, 1), PadZeros(r))
               /\ cnt_q' = q
               /\ hashPc' = "montify"
  /\ UNCHANGED <<hashInput, input_montiplied, input_to_absorb, sponge, digest,
                 spongeLog>>
  /\ UNCHANGED <<montVars, megaVars, permVars, polyVars, maryVars, appVars>>

\* lines 66-74
HashMontify ==
  /\ hashPc = "montify"
  /\ input_montiplied' = [i \in 1..Len(input_vec) |-> montify(input_vec[i]).res]
  /\ input_to_absorb' = input_montiplied'
  /\ hashPc' = "absorb"
  /\ UNCHANGED <<hashInput, input_vec, cnt_q, sponge, digest, spongeLog>>
  /\ UNCHANGED <<montVars, megaVars, permVars, polyVars, maryVars, appVars>>

\* one turn of the loop of lines 75-82
HashAbsorb ==
  /\ hashPc = "absorb"
  /\ IF Len(input_to_absorb) < RATE
       THEN /\ hashPc' = "panic"
            /\ UNCHANGED <<sponge, spongeLog, cnt_q, input_to_absorb>>
       ELSE /\ sponge' = absorb_rate(sponge, scag(input_to_absorb))
            /\ spongeLog' = Append(spongeLog, sponge')
            /\ IF cnt_q = 0
                 THEN /\ hashPc' = "digest"
                      /\ UNCHANGED <<cnt_q, input_to_absorb>>
                 ELSE /\ cnt_q' = cnt_q - 1
                      /\ input_to_absorb' = slag(input_to_absorb)
                      /\ hashPc' = "absorb"
  /\ UNCHANGED <<hashInput, input_vec, input_montiplied, digest>>
  /\ UNCHANGED <<montVars, megaVars, permVars, polyVars, maryVars, appVars>>

\* lines 84-90
HashDigest ==
  /\ hashPc = "digest"
  /\ digest' = [i \in 1..DIGEST_LENGTH |-> mont_reduction(sponge[i]).res]
  /\ hashPc' = "done"
  /\ UNCHANGED <<hashInput, input_vec, input_montiplied, input_to_absorb,
                 cnt_q, sponge, spongeLog>>
  /\ UNCHANGED <<montVars, megaVars, permVars, polyVars, maryVars, appVars>>

HashNext == HashPad \/ HashMontify \/ HashAbsorb \/ HashDigest

(***************************************************************************)
(* The constraint substitution evaluator (mp_substitute_mega_jet)          *)
(***************************************************************************)

MaxTerms == 2

Min(a, b) == IF a <= b THEN a ELSE b
Max(a, b) == IF a >= b THEN a ELSE b

\* Belt multiplication and addition
bmul(a, b) == (a * b) % P
badd(a, b) == (a + b) % P

\* modular exponentiation by squaring
RECURSIVE bpow(_, _)
bpow(x, e) ==
  IF e = 0 THEN 1
  ELSE LET h == bpow(bmul(x, x), e \div 2)
       IN IF e % 2 = 1 THEN bmul(x, h) ELSE h

zero_bpoly == <<0>>
ones_bpoly(len) == [i \in 1..len |-> 1]

\* res[i] = c * bp[i]
bpscal(c, bp) == [i \in 1..Len(bp) |-> bmul(c, bp[i])]

Coeff(bp, i) == IF i <= Len(bp) THEN bp[i] ELSE 0

\* res[i] = a[i] + b[i], the shorter operand zero-padded, into a buffer of
\* res_len elements
bpadd(a, b, res_len) == [i \in 1..res_len |-> badd(Coeff(a, i), Coeff(b, i))]

Failed(st) == [status |-> st, val |-> <<>>]
Value(v) == [status |-> "ok", val |-> v]

\* index-wise product into a buffer of res_len elements; operands of
\* different length are a fatal assertion
bp_hadamard(a, b, res_len) ==
  IF Len(a) # Len(b) THEN Failed("panic")
  ELSE Value([i \in 1..res_len |-> bmul(a[i], b[i])])

\* a factor is a tagged triple; brek takes it apart
brek(ter) == [typ |-> ter.typ, idx |-> ter.idx, exp |-> ter.exp]

\* a total that takes the length of the new term
new_acc_len_of_term(acc_len, scaled_len) == scaled_len

\* line 149
new_acc_len(acc_len, scaled_len) == Max(acc_len, scaled_len)

\* a total that is replaced by the new term instead of added to
next_acc_term_only(acc, scaled_inner_vec) == scaled_inner_vec

\* lines 149-153: the total after a term is added
next_acc(acc, scaled_inner_vec) ==
  bpadd(acc, scaled_inner_vec, new_acc_len(Len(acc), Len(scaled_inner_vec)))

\* a guard that skips nothing
is_zero_coefficient_never(v) == FALSE

\* line 66
is_zero_coefficient(v) == v = 0

\* a loop that multiplies once whatever the exponent
exp_rounds_once(exp) == 1

\* for _ in 0..exp, lines 93 and 135
exp_rounds(exp) == exp

\* for _ in 0..exp { bp_hadamard(inner_acc_vec, slice, res); inner_acc_vec = res }
RECURSIVE hadamard_loop(_, _, _, _)
hadamard_loop(inner_acc_vec, slice, res_len, n) ==
  IF n = 0 THEN Value(inner_acc_vec)
  ELSE LET h == bp_hadamard(inner_acc_vec, slice, res_len)
       IN IF h.status # "ok" THEN h
          ELSE hadamard_loop(h.val, slice, res_len, n - 1)

\* lines 89-97 and 131-139: one result buffer of the shorter length, filled
\* exp times
hadamard_pow(inner_acc_vec, slice, exp) ==
  LET hadamard_res_len == Min(Len(inner_acc_vec), Len(slice))
  IN hadamard_loop(inner_acc_vec, slice, hadamard_res_len, exp_rounds(exp))

\* The values the evaluator is called against: two variables of four trace
\* evaluations each, challenges 0 and 2, two dynamic values, commitment 0.
trace_evals == <<2, 3, 4, 5, 6, 7, 8, P - 1>>
chal_map == (0 :> 3) @@ (2 :> P - 2)
dyns == <<2, 7>>
com_map == (0 :> <<1, 2, 3, 4>>)

\* lines 80-98: MegaTyp::Var.  usize arithmetic wraps at R, or panics when
\* the build checks overflow.
apply_var(idx, exp, inner_acc_vec, poly_len_for_var_com, checks) ==
  LET mul == idx * poly_len_for_var_com
      var_start_idx == mul % R
      sum == var_start_idx + poly_len_for_var_com
      var_end_idx == sum % R
  IN IF checks /\ (mul >= R \/ sum >= R) THEN Failed("panic")
     ELSE IF var_end_idx > Len(trace_evals) THEN Failed("err")
     ELSE IF var_start_idx > var_end_idx THEN Failed("panic")
     ELSE hadamard_pow(inner_acc_vec,
                       SubSeq(trace_evals, var_start_idx + 1, var_end_idx),
                       exp)

\* lines 99-110: MegaTyp::Rnd
apply_rnd(idx, exp, inner_acc_vec) ==
  IF idx \notin DOMAIN chal_map THEN Failed("err")
  ELSE Value(bpscal(bpow(chal_map[idx], exp), inner_acc_vec))

\* lines 111-122: MegaTyp::Dyn
apply_dyn(idx, exp, inner_acc_vec) ==
  IF idx >= Len(dyns) THEN Failed("err")
  ELSE Value(bpscal(bpow(dyns[idx + 1], exp), inner_acc_vec))

\* lines 125-140: MegaTyp::Com
apply_com(idx, exp, inner_acc_vec) ==
  IF idx \notin DOMAIN com_map THEN Failed("err")
  ELSE hadamard_pow(inner_acc_vec, com_map[idx], exp)

apply_factor(ter, inner_acc_vec, poly_len_for_var_com, checks) ==
  LET f == brek(ter)
  IN CASE f.typ = "Var" ->
            apply_var(f.idx, f.exp, inner_acc_vec, poly_len_for_var_com, checks)
       [] f.typ = "Rnd" -> apply_rnd(f.idx, f.exp, inner_acc_vec)
       [] f.typ = "Dyn" -> apply_dyn(f.idx, f.exp, inner_acc_vec)
       [] f.typ = "Con" -> Value(inner_acc_vec)
       [] f.typ = "Com" -> apply_com(f.idx, f.exp, inner_acc_vec)

\* for i in 0..k.len(), lines 74-142; reached is the last factor it came to
RECURSIVE factor_loop(_, _, _, _, _)
factor_loop(k, i, inner_acc_vec, poly_len_for_var_com, checks) ==
  IF i > Len(k) THEN [status |-> "ok", val |-> inner_acc_vec, reached |-> Len(k)]
  ELSE LET r == apply_factor(k[i], inner_acc_vec, poly_len_for_var_com, checks)
       IN IF r.status # "ok"
            THEN [status |-> r.status, val |-> <<>>, reached |-> i]
            ELSE factor_loop(k, i + 1, r.val, poly_len_for_var_com, checks)

\* lines 70-147: the value of one term with a nonzero coefficient, scaled
eval_term(k, v, h, checks) ==
  LET mul == 4 * h
  IN IF checks /\ mul >= R
       THEN [status |-> "panic", val |-> <<>>, reached |-> 0]
       ELSE LET r == factor_loop(k, 1, ones_bpoly(Len(k)), mul % R, checks)
            IN IF r.status # "ok" THEN r
               ELSE [status |-> "ok", val |-> bpscal(v, r.val),
                     reached |-> r.reached]

\* the closure of try_fold, lines 57-156, on one pair
fold_step(acc, k, v, h, checks) ==
  IF is_zero_coefficient(v) THEN [status |-> "ok", acc |-> acc, reached |-> 0,
                                  added |-> <<>>]
  ELSE LET r == eval_term(k, v, h, checks)
       IN IF r.status # "ok"
            THEN [status |-> r.status, acc |-> acc, reached |-> r.reached,
                  added |-> <<>>]
            ELSE [status |-> "ok",
                  acc |-> next_acc(acc, r.val),
                  reached |-> r.reached,
                  added |-> <<Len(r.val)>>]

Fac(typ, idx, exp) == [typ |-> typ, idx |-> idx, exp |-> exp]

\* The terms the pairs are drawn from.
TermU ==
  << <<>>,
     << Fac("Rnd", 0, 2) >>,
     << Fac("Var", 1, 0) >>,
     << Fac("Var", 0, 1), Fac("Rnd", 2, 1), Fac("Con", 0, 1), Fac("Dyn", 1, 2) >>,
     << Fac("Var", 1, 2), Fac("Com", 0, 1), Fac("Con", 0, 3), Fac("Var", 0, 0) >>,
     << Fac("Dyn", 0, 1), Fac("Rnd", 1, 1) >>,
     << Fac("Var", 2, 1) >>,
     << Fac("Dyn", 2, 1) >>,
     << Fac("Com", 5, 1) >>,
     << Fac("Var", 1, 1) >> >>

Coefs == {0, 2, P - 1}

\* 1: the trace holds two variables.  R/8 + 1: 4*height fits the word and
\* twice that does not.  R/4: 4*height does not fit the word.
Heights == {1, (R \div 8) + 1, R \div 4}

Pairs == [t : 1..Len(TermU), v : Coefs]

\* a map has one coefficient per term
MegaInputs ==
  { s \in UNION { [1..n -> Pairs] : n \in 0..MaxTerms } :
      \A i, j \in DOMAIN s : i # j => s[i].t # s[j].t }

\* the lookup of a factor fails: its id is missing, or its slice
\* [idx*4*height, idx*4*height + 4*height) does not lie inside trace_evals
LookupFails(ter, h) ==
  CASE ter.typ = "Var" -> ter.idx * 4 * h + 4 * h > Len(trace_evals)
    [] ter.typ = "Rnd" -> ter.idx \notin DOMAIN chal_map
    [] ter.typ = "Dyn" -> ter.idx >= Len(dyns)
    [] ter.typ = "Con" -> FALSE
    [] ter.typ = "Com" -> ter.idx \notin DOMAIN com_map

MegaStart ==
  /\ p_pos = 1
  /\ acc_vec = zero_bpoly
  /\ megaResult = <<>>
  /\ termLens = <<>>
  /\ metLookupFailure = FALSE

MegaInit ==
  /\ megaPc = "fold"
  /\ p_list \in MegaInputs
  /\ height \in Heights
  /\ overflow_checks \in BOOLEAN
  /\ MegaStart

MegaIdle ==
  /\ megaPc = "idle"
  /\ p_list = <<>>
  /\ height = 0
  /\ overflow_checks = FALSE
  /\ MegaStart

\* one call of the try_fold closure
MegaFoldTerm ==
  /\ megaPc = "fold"
  /\ p_pos <= Len(p_list)
  /\ LET k == TermU[p_list[p_pos].t]
         v == p_list[p_pos].v
         r == fold_step(acc_vec, k, v, height, overflow_checks)
     IN /\ megaPc' = IF r.status = "ok" THEN "fold" ELSE r.status
        /\ p_pos' = IF r.status = "ok" THEN p_pos + 1 ELSE p_pos
        /\ acc_vec' = r.acc
        /\ termLens' = termLens \o r.added
        /\ metLookupFailure' =
             (metLookupFailure \/ \E i \in 1..r.reached : LookupFails(k[i], height))
  /\ UNCHANGED <<p_list, height, overflow_checks, megaResult>>
  /\ UNCHANGED <<montVars, hashVars, permVars, polyVars, maryVars, appVars>>

\* lines 158-164: the total is copied into the result
MegaReturn ==
  /\ megaPc = "fold"
  /\ p_pos > Len(p_list)
  /\ megaResult' = acc_vec
  /\ megaPc' = "ok"
  /\ UNCHANGED <<p_list, p_pos, height, overflow_checks, acc_vec, termLens,
                 metLookupFailure>>
  /\ UNCHANGED <<montVars, hashVars, permVars, polyVars, maryVars, appVars>>

MegaNext == MegaFoldTerm \/ MegaReturn

(***************************************************************************)
(* The permutation jet (jets/tip5_jets.rs, lines 17-48)                    *)
(*                                                                         *)
(* The sample is a noun: an atom, or cells [head tail] ending in an atom.  *)
(* It is held as the sequence of its heads and the atom that ends it; a    *)
(* noun without heads is an atom.  A head is a u64 atom, an atom wider     *)
(* than 64 bits, or a cell.                                                *)
(***************************************************************************)

MaxListLen == 18

\* the value of the k-th head when it is a u64 atom
HeadVal(k) == (k * 7 + 1) % R

Elem(kind, k) == [kind |-> kind, val |-> IF kind = "u64" THEN HeadVal(k) ELSE 0]

\* the lists of len heads of which at most one (the bad-th) is no u64 atom
Heads(len, bad, kind) ==
  [k \in 1..len |-> IF k = bad THEN Elem(kind, k) ELSE Elem("u64", k)]

PermSamples ==
  { [heads |-> Heads(len, bad, kind), tail |-> tl] :
      len \in 0..MaxListLen, bad \in 0..MaxListLen, kind \in {"big", "cell"},
      tl \in {0, 5} }

\* Noun::is_atom and Noun::is_cell of what is left of the sample
is_atom(cur) == cur = <<>>
is_cell(cur) == cur # <<>>

\* vec_to_hoon_list: the 16 lanes as a list
vec_to_hoon_list(sp) == [k \in 1..STATE_SIZE |-> sp[k]]

PermInit ==
  /\ permPc = "call"
  /\ perm_sample \in PermSamples
  /\ current = <<>>
  /\ perm_i = 0
  /\ perm_sponge = <<>>
  /\ new_sponge = <<>>

PermIdle ==
  /\ permPc = "idle"
  /\ perm_sample = [heads |-> <<>>, tail |-> 0]
  /\ current = <<>>
  /\ perm_i = 0
  /\ perm_sponge = <<>>
  /\ new_sponge = <<>>

\* lines 18-24: an atom is refused, else the loop starts on zeroed lanes
PermEnter ==
  /\ permPc = "call"
  /\ IF is_atom(perm_sample.heads)
       THEN /\ permPc' = "err"
            /\ UNCHANGED <<current, perm_i, perm_sponge>>
       ELSE /\ permPc' = "loop"
            /\ perm_sponge' = Zeros(STATE_SIZE)
            /\ current' = perm_sample.heads
            /\ perm_i' = 0
  /\ UNCHANGED <<perm_sample, new_sponge>>
  /\ UNCHANGED <<montVars, hashVars, megaVars, polyVars, maryVars, appVars>>

\* lines 26-31: one turn of the loop. sponge[i] is an indexed store into
\* [u64; STATE_SIZE]: an index of STATE_SIZE or more panics.
PermLoopTurn ==
  /\ permPc = "loop"
  /\ is_cell(current)
  /\ LET head == Head(current) IN
       IF head.kind # "u64"
         THEN /\ permPc' = "err"
              /\ UNCHANGED <<current, perm_i, perm_sponge>>
         ELSE IF perm_i >= STATE_SIZE
           THEN /\ permPc' = "panic"
                /\ UNCHANGED <<current, perm_i, perm_sponge>>
           ELSE /\ perm_sponge' = [perm_sponge EXCEPT ![perm_i + 1] = head.val]
                /\ current' = Tail(current)
                /\ perm_i' = perm_i + 1
                /\ permPc' = "loop"
  /\ UNCHANGED <<perm_sample, new_sponge>>
  /\ UNCHANGED <<montVars, hashVars, megaVars, polyVars, maryVars, appVars>>

\* lines 33-37 and 43-47: the loop ends at the first atom, whatever its
\* value; with 16 heads read the lanes are permuted and returned
PermLoopExit ==
  /\ permPc = "loop"
  /\ is_atom(current)
  /\ IF perm_i # STATE_SIZE
       THEN /\ permPc' = "err"
            /\ UNCHANGED new_sponge
       ELSE /\ permPc' = "ok"
            /\ new_sponge' = vec_to_hoon_list(permute(perm_sponge))
  /\ UNCHANGED <<perm_sample, current, perm_i, perm_sponge>>
  /\ UNCHANGED <<montVars, hashVars, megaVars, polyVars, maryVars, appVars>>

PermNext == PermEnter \/ PermLoopTurn \/ PermLoopExit

(***************************************************************************)
(* The polynomial jets (jets/bp_jets.rs, jets/fp_jets.rs)                  *)
(*                                                                         *)
(* A Felt is a triple of Belts, an element of the cubic extension of the   *)
(* base field.  The transforms and the interpolation invert elements and   *)
(* use roots of unity, so this part fixes the base modulus at the scale    *)
(* where 2^(2h) - 2^h + 1 is prime (h = 4), whatever HalfBits is.  The     *)
(* Felt primitives (form::math::fext) are given: addition and negation     *)
(* are component-wise, multiplication reduces by a fixed irreducible       *)
(* cubic, here x^3 = x - 10 (the program's is irreducible over its prime). *)
(***************************************************************************)

PRIME == 241

MaxPolyLen == 4
\* the host makes at most MaxCalls calls in a row
MaxCalls == 2

Felt(c0, c1, c2) == <<c0 % PRIME, c1 % PRIME, c2 % PRIME>>
felt_zero == <<0, 0, 0>>
felt_one == <<1, 0, 0>>
\* Felt::from([Belt(n), Belt(0), Belt(0)])
felt_from(n) == <<n % PRIME, 0, 0>>

fadd(a, b) == Felt(a[1] + b[1], a[2] + b[2], a[3] + b[3])
fneg(a) == Felt(PRIME - a[1], PRIME - a[2], PRIME - a[3])
fsub(a, b) == fadd(a, fneg(b))
fmul(a, b) ==
  LET c0 == a[1] * b[1]
      c1 == a[1] * b[2] + a[2] * b[1]
      c2 == a[1] * b[3] + a[2] * b[2] + a[3] * b[1]
      c3 == (a[2] * b[3] + a[3] * b[2]) % PRIME
      c4 == (a[3] * b[3]) % PRIME
  IN Felt(c0 + (PRIME - 10) * c3, c1 + c3 + (PRIME - 10) * c4, c2 + c4)

\* fpow_: square and multiply
RECURSIVE fpow_(_, _)
fpow_(x, n) ==
  IF n = 0 THEN felt_one
  ELSE LET h == fpow_(x, n \div 2)
           s == fmul(h, h)
       IN IF n % 2 = 1 THEN fmul(s, x) ELSE s

\* the inverse of a nonzero Belt
binv(n) == CHOOSE b \in 0..(PRIME - 1) : (n * b) % PRIME = 1

\* finv: the inverse of a nonzero element a, as conj / norm with
\* conj = a^PRIME * a^(PRIME^2) and norm = a * conj, an element of the base
\* field
finv(a) ==
  LET frob == fpow_(a, PRIME)
      conj == fmul(frob, fpow_(frob, PRIME))
      norm == fmul(a, conj)
  IN fmul(conj, felt_from(binv(norm[1])))
fdiv(a, b) == fmul(a, finv(b))

\* ---- lines 506-522: the table of roots of unity, ROOTS[log_n] of order
\* 2^log_n; the program's table has 33 entries for a prime with 2^32 | p - 1,
\* this one has 5 for 2^4 | PRIME - 1
ROOTS == <<1, PRIME - 1, 64, PRIME - 8, 165>>

\* usize::trailing_zeros; 64 for 0
RECURSIVE trailing_zeros(_)
trailing_zeros(n) ==
  IF n = 0 THEN 2 * HalfBits
  ELSE IF n % 2 = 1 THEN 0 ELSE 1 + trailing_zeros(n \div 2)

\* n & (n - 1) == 0 for n >= 1
RECURSIVE is_power_of_two(_)
is_power_of_two(n) ==
  IF n <= 1 THEN n = 1
  ELSE n % 2 = 0 /\ is_power_of_two(n \div 2)

\* assert!(log_n < ROOTS.len())
root_in_table(log_n) == log_n < Len(ROOTS)
get_root_of_unity(log_n) == felt_from(ROOTS[log_n + 1])

\* ---- lines 400-421
\* a sum that stops at the end of the shorter operand
fpadd_poly_truncated(p, q) ==
  [i \in 1..Min(Len(p), Len(q)) |-> fadd(q[i], p[i])]

fpadd_poly(p, q) ==
  LET m == Max(Len(p), Len(q))
      zeroed == [i \in 1..m |-> felt_zero]
      with_p == [i \in 1..m |-> IF i <= Len(p) THEN fadd(p[i], zeroed[i]) ELSE zeroed[i]]
  IN [i \in 1..m |-> IF i <= Len(q) THEN fadd(q[i], with_p[i]) ELSE with_p[i]]

\* ---- lines 464-486: for i, for j: res[i + j] += p[i] * q[j]. The slot
\* res[k] takes the products p[i] * q[k - i] in the order of i; fpmul_slot
\* is the value of the k-th slot once the rows from the i-th on are added
\* to acc (k and i count from 1 here)
RECURSIVE fpmul_slot(_, _, _, _, _)
fpmul_slot(p, q, k, i, acc) ==
  IF i > Len(p) THEN acc
  ELSE fpmul_slot(p, q, k, i + 1,
                  IF k + 1 - i \in 1..Len(q)
                    THEN fadd(fmul(p[i], q[k + 1 - i]), acc)
                    ELSE acc)

\* the loops of lines 478-485 on the buffer res
fpmul_loop(p, q, res) ==
  [k \in 1..Len(res) |-> fpmul_slot(p, q, k, 1, res[k])]

FZeros(n) == [i \in 1..n |-> felt_zero]

\* res is the buffer of res_len elements the caller allocated; with an empty
\* operand it is returned as it is (the callers allocate none then)
fpmul_poly(p, q, res_len) ==
  IF Len(p) = 0 \/ Len(q) = 0 THEN FZeros(res_len)
  ELSE fpmul_loop(p, q, FZeros(res_len))

\* ---- lines 489-503: Horner
RECURSIVE fpeval_loop(_, _, _, _)
fpeval_loop(p, x, result, i) ==
  IF i < 1 THEN result
  ELSE fpeval_loop(p, x, fadd(fmul(result, x), p[i]), i - 1)

fpeval_poly(p, x) ==
  IF p = <<>> THEN felt_zero
  ELSE fpeval_loop(p, x, p[Len(p)], Len(p) - 1)

\* ---- lines 275-315
evens_of(p) == [i \in 1..(Len(p) \div 2) |-> p[2 * i - 1]]
odds_of(p) == [i \in 1..(Len(p) \div 2) |-> p[2 * i]]

\* lines 309-314: res[i] = evens_fft[i % half] + root^i * odds_fft[i % half]
fft_combine(evens_fft, odds_fft, root, n) ==
  LET half == n \div 2
  IN [i \in 1..n |->
        fadd(evens_fft[((i - 1) % half) + 1],
             fmul(fpow_(root, i - 1), odds_fft[((i - 1) % half) + 1]))]

RECURSIVE fp_fft_recursive(_, _)
fp_fft_recursive(p, root) ==
  IF Len(p) = 1 THEN p
  ELSE LET root_squared == fmul(root, root)
       IN fft_combine(fp_fft_recursive(evens_of(p), root_squared),
                      fp_fft_recursive(odds_of(p), root_squared),
                      root, Len(p))

\* ---- lines 225-272; for n = 0 the subtraction n - 1 of line 229 panics
\* in a build with overflow checks and wraps in one without, where the
\* assertion then passes and get_root_of_unity(64) fails its own (line 520)
fp_fft_poly(p) ==
  LET n == Len(p)
      log_n == trailing_zeros(n)
      root == get_root_of_unity(log_n)
      root_squared == fmul(root, root)
  IN IF n = 0 \/ ~is_power_of_two(n) THEN Failed("panic")
     ELSE IF n = 1 THEN Value(p)
     ELSE IF ~root_in_table(log_n) THEN Failed("panic")
     ELSE Value(fft_combine(fp_fft_recursive(evens_of(p), root_squared),
                            fp_fft_recursive(odds_of(p), root_squared),
                            root, n))

\* an inverse transform that forgets the scaling by 1/n
ifft_scale_none(res, inv_n) == res

\* lines 338-341
ifft_scale(res, inv_n) == [i \in 1..Len(res) |-> fmul(res[i], inv_n)]

\* ---- lines 318-342
fp_ifft_poly(p) ==
  LET n == Len(p)
      log_n == trailing_zeros(n)
      root == get_root_of_unity(log_n)
      inv_root == finv(root)
      inv_n == finv(felt_from(n))
  IN IF n = 0 \/ ~is_power_of_two(n) THEN Failed("panic")
     ELSE IF ~root_in_table(log_n) THEN Failed("panic")
     ELSE Value(ifft_scale(fp_fft_recursive(p, inv_root), inv_n))

\* ---- lines 525-594
\* lines 540-549: the product of domain[i] - domain[j] over j # i
RECURSIVE denom_loop(_, _, _, _)
denom_loop(domain, i, j, denom) ==
  IF j > Len(domain) THEN denom
  ELSE denom_loop(domain, i, j + 1,
                  IF i # j THEN fmul(denom, fsub(domain[i], domain[j])) ELSE denom)

\* a linear factor x + domain[j] instead of x - domain[j]
times_linear_plus(basis, d) ==
  [k \in 1..(Len(basis) + 1) |->
     fadd(IF k >= 2 THEN basis[k - 1] ELSE felt_zero,
          IF k <= Len(basis) THEN fmul(d, basis[k]) ELSE felt_zero)]

\* lines 565-579: basis * (x - d), one coefficient longer
times_linear(basis, d) ==
  [k \in 1..(Len(basis) + 1) |->
     LET shifted == IF k >= 2 THEN basis[k - 1] ELSE felt_zero
     IN IF k <= Len(basis) THEN fsub(shifted, fmul(d, basis[k])) ELSE shifted]

\* lines 557-584: the first basis_deg coefficients of basis
RECURSIVE basis_loop(_, _, _, _)
basis_loop(domain, i, j, basis) ==
  IF j > Len(domain) THEN basis
  ELSE basis_loop(domain, i, j + 1,
                  IF i # j THEN times_linear(basis, domain[j]) ELSE basis)

\* lines 587-592
add_scaled(res, scale, basis) ==
  [k \in 1..Len(res) |->
     IF k <= Min(Len(basis), Len(res)) THEN fadd(res[k], fmul(scale, basis[k])) ELSE res[k]]

RECURSIVE interpolate_loop(_, _, _, _)
interpolate_loop(domain, values, res, i) ==
  IF i > Len(domain) THEN res
  ELSE LET denom == denom_loop(domain, i, 1, felt_one)
           scale == fdiv(values[i], denom)
           basis == basis_loop(domain, i, 1, <<felt_one>>)
       IN interpolate_loop(domain, values, add_scaled(res, scale, basis), i + 1)

\* fdiv by a zero denominator (two equal domain points) is the primitive's
\* own affair: the result is marked, not computed
interpolate_poly(domain, values, res_len) ==
  IF \E i \in 1..Len(domain) : denom_loop(domain, i, 1, felt_one) = felt_zero
    THEN Failed("div_by_zero")
    ELSE Value(interpolate_loop(domain, values, FZeros(res_len), 1))

\* ---- lines 597-637
RECURSIVE compose_loop(_, _, _, _, _)
compose_loop(p, q, res, q_power, i) ==
  IF i > Len(p) THEN res
  ELSE LET new_len == Len(q_power) + Len(q) - 1
           new_q_power == fpmul_loop(q_power, q, FZeros(new_len))
       IN compose_loop(p, q, add_scaled(res, p[i], new_q_power), new_q_power, i + 1)

\* a composition that forgets the constant term p[0]
fpcompose_poly_no_const(p, q, res_len) ==
  IF p = <<>> \/ q = <<>> THEN FZeros(res_len)
  ELSE compose_loop(p, q, FZeros(res_len), <<felt_one>>, 2)

\* with an empty operand res is returned as it is (the jet allocates none)
fpcompose_poly(p, q, res_len) ==
  IF p = <<>> \/ q = <<>> THEN FZeros(res_len)
  ELSE compose_loop(p, q, [FZeros(res_len) EXCEPT ![1] = p[1]], <<felt_one>>, 2)

\* ---- the jets of fp_jets.rs
\* lines 144-148
mul_res_len(lp, lq) == IF lp = 0 \/ lq = 0 THEN 0 ELSE lp + lq - 1

\* lines 131-157
fp_mul_jet(fp, fq) == Value(fpmul_poly(fp, fq, mul_res_len(Len(fp), Len(fq))))

\* lines 345-367
interpolate_jet(domain, values) ==
  IF Len(domain) # Len(values) THEN Failed("err")
  ELSE interpolate_poly(domain, values, Len(domain))

\* a result length that allows for the degree of p only
compose_res_len_p(lp, lq) == IF lp = 0 \/ lq = 0 THEN 0 ELSE lp

\* lines 380-384
compose_res_len(lp, lq) == IF lp = 0 \/ lq = 0 THEN 0 ELSE (lp - 1) * (lq - 1) + 1

\* lines 370-393
fpcompose_jet(p, q) == Value(fpcompose_poly(p, q, compose_res_len(Len(p), Len(q))))

\* bp_jets.rs lines 44-61
bpadd_jet(bp, bq) == Value(bpadd(bp, bq, Max(Len(bp), Len(bq))))

\* bp_jets.rs lines 140-157; line 148 is assert_eq!(bp_poly.len(), bq_poly.len())
bp_hadamard_jet(bp, bq) ==
  IF Len(bp) # Len(bq) THEN Failed("panic")
  ELSE bp_hadamard(bp, bq, Len(bp))

\* ---- the samples of the host
FeltU == {felt_zero, felt_one, <<2, 1, 0>>, <<PRIME - 1, 0, 3>>}
BeltU == {0, 1, P - 1}

PolysOver(U) == UNION { [1..n -> U] : n \in 0..MaxPolyLen }

Reversed(p) == [i \in 1..Len(p) |-> p[Len(p) + 1 - i]]

\* the second polynomials tried with the first polynomial p
FpSeconds(p) ==
  { <<>>, <<felt_zero>>, <<felt_zero, felt_one>>, <<felt_one, <<2, 1, 0>>>>,
    << <<PRIME - 1, 0, 3>>, felt_zero, <<7, 5, 11>> >>,
    Reversed(p), [i \in 1..Len(p) |-> fadd(p[i], <<3, 0, 1>>)] }

BpSeconds(p) ==
  { <<>>, <<0>>, <<0, 1>>, <<2, P - 1, 5>>,
    Reversed(p), [i \in 1..Len(p) |-> badd(p[i], 3)] }

PolyInit ==
  /\ polyPc = "host"
  /\ polyCalls = <<>>
  /\ \/ /\ poly_kind = "fp"
        /\ \/ poly_p \in PolysOver(FeltU) /\ poly_q \in FpSeconds(poly_p)
           \/ /\ poly_p = <<felt_from(1), felt_from(2), felt_from(3)>>
              /\ poly_q = <<felt_from(4), felt_from(5)>>
     \/ /\ poly_kind = "bp"
        /\ \/ poly_p \in PolysOver(BeltU) /\ poly_q \in BpSeconds(poly_p)
           \/ poly_p = <<1, 2, 3>> /\ poly_q = <<4, 5>>

PolyIdle ==
  /\ polyPc = "idle"
  /\ poly_kind = "bp"
  /\ poly_p = <<>>
  /\ poly_q = <<>>
  /\ polyCalls = <<>>

PolyFirst(kind) ==
  /\ polyPc = "host"
  /\ poly_kind = kind
  /\ polyCalls = <<>>

\* the host passes the result of the last call, made by the jet prev, on
PolyChained(prev) ==
  /\ polyPc = "host"
  /\ polyCalls # <<>>
  /\ Len(polyCalls) < MaxCalls
  /\ polyCalls[Len(polyCalls)].jet = prev
  /\ polyCalls[Len(polyCalls)].out.status = "ok"

PolyArg == IF polyCalls = <<>> THEN poly_p ELSE polyCalls[Len(polyCalls)].out.val

PolyCall(jet, p, x, out) ==
  /\ polyCalls' = Append(polyCalls, [jet |-> jet, p |-> p, x |-> x, out |-> out])
  /\ UNCHANGED <<polyPc, poly_kind, poly_p, poly_q>>
  /\ UNCHANGED <<montVars, hashVars, megaVars, permVars, maryVars, appVars>>

BpAddJet ==
  /\ PolyFirst("bp")
  /\ PolyCall("bpadd", poly_p, <<>>, bpadd_jet(poly_p, poly_q))

BpHadamardJet ==
  /\ PolyFirst("bp")
  /\ PolyCall("bp_hadamard", poly_p, <<>>, bp_hadamard_jet(poly_p, poly_q))

\* fp_add_jet, lines 47-67
FpAddJet ==
  /\ PolyFirst("fp")
  /\ PolyCall("fp_add", poly_p, <<>>, Value(fpadd_poly(poly_p, poly_q)))

FpMulJet ==
  /\ PolyFirst("fp")
  /\ PolyCall("fp_mul", poly_p, <<>>, fp_mul_jet(poly_p, poly_q))

\* fp_eval_jet, lines 160-186
FpEvalJet ==
  /\ PolyFirst("fp") \/ PolyChained("interpolate")
  /\ \E x \in FeltU : PolyCall("fp_eval", PolyArg, x, Value(fpeval_poly(PolyArg, x)))

\* fp_fft_jet, lines 189-204
FpFftJet ==
  /\ PolyFirst("fp") \/ PolyChained("fp_ifft")
  /\ PolyCall("fp_fft", PolyArg, <<>>, fp_fft_poly(PolyArg))

\* fp_ifft_jet, lines 207-222
FpIfftJet ==
  /\ PolyFirst("fp") \/ PolyChained("fp_fft")
  /\ PolyCall("fp_ifft", PolyArg, <<>>, fp_ifft_poly(PolyArg))

InterpolateJet ==
  /\ PolyFirst("fp")
  /\ PolyCall("interpolate", poly_p, <<>>, interpolate_jet(poly_p, poly_q))

FpComposeJet ==
  /\ PolyFirst("fp")
  /\ PolyCall("fpcompose", poly_p, <<>>, fpcompose_jet(poly_p, poly_q))

PolyNext ==
  \/ BpAddJet \/ BpHadamardJet \/ FpAddJet \/ FpMulJet \/ FpEvalJet
  \/ FpFftJet \/ FpIfftJet \/ InterpolateJet \/ FpComposeJet

(***************************************************************************)
(* The matrix jets (jets/mary_jets.rs)                                     *)
(*                                                                         *)
(* A mary is a row-major buffer dat of len rows of step values.  The host  *)
(* holds one mary as the door's and one as the sample's, and calls a jet   *)
(* on them, or a transpose on the mary the previous call returned.  Row    *)
(* counts and offsets stay far below the u32 and usize ranges (a row takes *)
(* memory), so the products and sums of lines 82 and 105 do not wrap.      *)
(***************************************************************************)

MaxStep == 4
MaxRows == 3

\* u32, the type of MarySlice::step and MarySlice::len
U32 == R_MOD_P1

\* the mary of the given dimensions whose k-th value is base + k
MaryOf(step, len, base) ==
  [step |-> step, len |-> len, dat |-> [k \in 1..(step * len) |-> base + k]]

Marys(base) == { MaryOf(step, len, base) : step \in 0..MaxStep, len \in 0..MaxRows }

\* mary_weld: the rows of mary1, then the rows of mary2
mary_weld(mary1, mary2) == mary1.dat \o mary2.dat

\* mary_transpose: the mary is read as len rows of step / offset elements,
\* each element offset values wide, and written as step / offset rows of
\* len elements. The place in mary.dat of the n-th value written:
transpose_from(mary, offset, n) ==
  LET num_cols == mary.step \div offset
      num_rows == mary.len
      e == (n - 1) \div offset
      k == (n - 1) % offset
      i == e \div num_rows
      j == e % num_rows
  IN (j * num_cols + i) * offset + k + 1

\* a slice index outside the buffer panics
mary_transpose(mary, offset, res_step, res_len) ==
  IF \E n \in 1..(res_step * res_len) :
        transpose_from(mary, offset, n) \notin 1..Len(mary.dat)
    THEN Failed("panic")
    ELSE Value([step |-> res_step, len |-> res_len,
                dat |-> [n \in 1..(res_step * res_len) |->
                           mary.dat[transpose_from(mary, offset, n)]]])

\* a result length that keeps only the first mary's rows
weld_res_len_first(len1, len2) == len1 % U32

\* line 82: let res_len = mary1.len + mary2.len, in u32
weld_res_len(len1, len2) == (len1 + len2) % U32

\* lines 71-88
mary_weld_jet(m1, m2) ==
  LET step == m1.step % U32
      step2 == m2.step % U32
  IN IF step # step2
       THEN Failed("err")
       ELSE LET res_len == weld_res_len(m1.len, m2.len)
            IN Value([step |-> step, len |-> res_len, dat |-> mary_weld(m1, m2)])

\* dimensions that keep the argument's step and len
transpose_dims_kept(mary, offset) == [step |-> mary.step, len |-> mary.len]

\* lines 103-107: new_handle_mut_mary(stack, len * offset, step / offset)
transpose_dims(mary, offset) ==
  [step |-> mary.len * offset, len |-> mary.step \div offset]

\* lines 101-115; the division of line 106 panics when offset is 0
mary_transpose_jet(mary, offset) ==
  IF offset = 0
    THEN Failed("panic")
    ELSE LET res_poly == transpose_dims(mary, offset)
         IN mary_transpose(mary, offset, res_poly.step, res_poly.len)

\* lines 45-64: the same with offset 1
transpose_bpolys(bpolys) == mary_transpose_jet(bpolys, 1)

\* usize
USIZE == R

\* a direct atom holds 63 bits, one less than the word
DIRECT_MAX == (R \div 2) - 1

\* line 33: (i * step)..(i + j) * step, in usize
swag_range(step, i, j) ==
  [lo |-> (i * step) % USIZE, hi |-> ((i + j) * step) % USIZE]

\* lines 15-37. A build with overflow checks panics when a product of line 33
\* leaves usize, any other build wraps it; a range outside mary.dat, or one
\* whose length is not that of the new buffer, panics in line 33.
mary_swag_jet(mary, i, j, checks) ==
  IF i > DIRECT_MAX \/ j > DIRECT_MAX
    THEN Failed("err")
    ELSE LET step == mary.step
             range == swag_range(step, i, j)
         IN IF checks /\ (i * step >= USIZE \/ (i + j) * step >= USIZE)
              THEN Failed("panic")
              ELSE IF range.lo > range.hi \/ range.hi > Len(mary.dat)
                        \/ range.hi - range.lo # step * j
                     THEN Failed("panic")
                     ELSE Value([step |-> step, len |-> j,
                                 dat |-> SubSeq(mary.dat, range.lo + 1, range.hi)])

\* the row indices the host passes to swag: small ones, and ones whose
\* product with a step reaches the size of usize
SwagRows == (0..(MaxRows + 1)) \cup {USIZE \div 4, USIZE \div 2 - 1, USIZE \div 2}

MaryInit ==
  /\ maryPc = "host"
  /\ ma \in Marys(0)
  /\ ma2 \in Marys(100)
  /\ maryCalls = <<>>

MaryIdle ==
  /\ maryPc = "idle"
  /\ ma = MaryOf(0, 0, 0)
  /\ ma2 = MaryOf(0, 0, 0)
  /\ maryCalls = <<>>

\* the mary the next call is made on: the door's, or the last result
MaryReady ==
  /\ maryPc = "host"
  /\ Len(maryCalls) < MaxCalls
  /\ maryCalls # <<>> => maryCalls[Len(maryCalls)].out.status = "ok"

MaryArg == IF maryCalls = <<>> THEN ma ELSE maryCalls[Len(maryCalls)].out.val

MaryCall(jet, arg, offset, out) ==
  /\ maryCalls' = Append(maryCalls, [jet |-> jet, arg |-> arg, offset |-> offset, out |-> out])
  /\ UNCHANGED <<maryPc, ma, ma2>>
  /\ UNCHANGED <<montVars, hashVars, megaVars, permVars, polyVars, appVars>>

\* weld is called on the door's and the sample's mary, whose steps and row
\* counts are u32 values
MaryWeldJet ==
  /\ MaryReady
  /\ maryCalls = <<>>
  /\ MaryCall("weld", ma, 0, mary_weld_jet(ma, ma2))

MaryTransposeJet ==
  /\ MaryReady
  /\ \E offset \in 0..MaxStep :
       MaryCall("transpose", MaryArg, offset, mary_transpose_jet(MaryArg, offset))

TransposeBpolysJet ==
  /\ MaryReady
  /\ MaryCall("transpose_bpolys", MaryArg, 1, transpose_bpolys(MaryArg))

\* swag is called on the door's mary
MarySwagJet ==
  /\ MaryReady
  /\ maryCalls = <<>>
  /\ \E i \in SwagRows, j \in 0..(MaxRows + 1), checks \in BOOLEAN :
       /\ maryCalls' = Append(maryCalls, [jet |-> "swag", arg |-> ma, i |-> i, j |-> j,
                                          checks |-> checks,
                                          out |-> mary_swag_jet(ma, i, j, checks)])
       /\ UNCHANGED <<maryPc, ma, ma2>>
       /\ UNCHANGED <<montVars, hashVars, megaVars, permVars, polyVars, appVars>>

MaryNext == MaryWeldJet \/ MaryTransposeJet \/ TransposeBpolysJet \/ MarySwagJet

(***************************************************************************)
(* The mining driver (nockchain/src/mining.rs)                             *)
(*                                                                         *)
(* The driver task runs a loop over two events: a `mine` effect of the     *)
(* main application, and the completion of the attempt in its JoinSet.     *)
(* Each attempt is a task of its own, which runs beside the driver.  The   *)
(* n-th `mine` effect carries candidate n, and the attempt on candidate n  *)
(* is attempt n.                                                           *)
(***************************************************************************)

MaxEffects == 3
MaxCommands == 2

Candidates == 1..MaxEffects

\* Option
None == <<>>
Some(x) == <<x>>

\* a spawn decision that looks at the queue only
queue_candidate_if_queued(cur, nxt) == nxt # None

\* line 153: !current_attempt.is_empty() || next_attempt.is_some()
queue_candidate(cur, nxt) == cur # {} \/ nxt # None

\* a take that drops the sender without a send
send_stop_skipped(tx, sent) == sent

\* lines 141-143: if let Some(tx) = current_attempt_stop_tx.take() { tx.send(()) }
send_stop(tx, sent) ==
  IF tx # None /\ tx[1] # 0 THEN [sent EXCEPT ![tx[1]] = TRUE] ELSE sent

\* line 174: a sender goes out of scope: its receiver sees the channel closed
drop_sender(tx, sent, dropped) ==
  IF tx # None /\ tx[1] # 0 /\ ~sent[tx[1]] THEN dropped \cup {tx[1]} ELSE dropped

\* a queue that is emptied without a spawn
take_next_none(nxt) == None

\* line 177: next_attempt.take()
take_next(nxt) == nxt

\* the positions of a task that has ended: it returned after its pokes,
\* returned on the stop signal, or panicked
Ended == {"done", "stopped", "panicked"}

MineInit ==
  /\ minePc = "loop"
  /\ mineCount = 0
  /\ next_attempt = None
  /\ current_attempt = {}
  /\ current_attempt_stop_tx = None
  /\ attemptPc = [a \in Candidates |-> "none"]
  /\ stopSent = [a \in Candidates |-> FALSE]
  /\ senderDropped = {}
  /\ toPoke = [a \in Candidates |-> 0]
  /\ minedPokes = {}
  /\ replaced = {}

MineIdle ==
  /\ minePc = "idle"
  /\ mineCount = 0
  /\ next_attempt = None
  /\ current_attempt = {}
  /\ current_attempt_stop_tx = None
  /\ attemptPc = <<>>
  /\ stopSent = <<>>
  /\ senderDropped = {}
  /\ toPoke = <<>>
  /\ minedPokes = {}
  /\ replaced = {}

\* lines 122-166: the select branch of a `mine` effect. The receiver of the
\* new channel goes to the spawned attempt, or is dropped at the end of the
\* branch when the candidate is queued.
MineEffect ==
  /\ minePc = "loop"
  /\ mineCount < MaxEffects
  /\ LET candidate_slab == mineCount + 1 IN
       /\ mineCount' = candidate_slab
       /\ stopSent' = send_stop(current_attempt_stop_tx, stopSent)
       /\ IF queue_candidate(current_attempt, next_attempt)
            THEN /\ next_attempt' = Some(candidate_slab)
                 /\ replaced' = replaced \cup {next_attempt[k] : k \in 1..Len(next_attempt)}
                 /\ current_attempt_stop_tx' = Some(0)
                 /\ UNCHANGED <<current_attempt, attemptPc>>
            ELSE /\ current_attempt' = current_attempt \cup {candidate_slab}
                 /\ attemptPc' = [attemptPc EXCEPT ![candidate_slab] = "load"]
                 /\ current_attempt_stop_tx' = Some(candidate_slab)
                 /\ UNCHANGED <<next_attempt, replaced>>
  /\ UNCHANGED <<minePc, senderDropped, toPoke, minedPokes>>
  /\ UNCHANGED <<jetVars, kpoolVars, memVars, tblVars, bumpVars>>

\* lines 168-191: the select branch of join_next, for a task that has ended
JoinNext ==
  /\ minePc = "loop"
  /\ \E a \in current_attempt :
       /\ attemptPc[a] \in Ended
       /\ senderDropped' = drop_sender(current_attempt_stop_tx, stopSent, senderDropped)
       /\ LET queued == take_next(next_attempt) IN
            IF queued # None
              THEN /\ current_attempt' = (current_attempt \ {a}) \cup {queued[1]}
                   /\ attemptPc' = [attemptPc EXCEPT ![a] = "joined", ![queued[1]] = "load"]
                   /\ current_attempt_stop_tx' = Some(queued[1])
              ELSE /\ current_attempt' = current_attempt \ {a}
                   /\ attemptPc' = [attemptPc EXCEPT ![a] = "joined"]
                   /\ current_attempt_stop_tx' = None
       /\ next_attempt' = None
  /\ UNCHANGED <<minePc, mineCount, stopSent, toPoke, minedPokes, replaced>>
  /\ UNCHANGED <<jetVars, kpoolVars, memVars, tblVars, bumpVars>>

AttemptStep(a, pc) ==
  /\ minePc = "loop"
  /\ attemptPc' = [attemptPc EXCEPT ![a] = pc]
  /\ UNCHANGED <<minePc, mineCount, next_attempt, current_attempt,
                 current_attempt_stop_tx, stopSent, senderDropped, replaced>>
  /\ UNCHANGED <<jetVars, kpoolVars, memVars, tblVars, bumpVars>>

\* a stop_rx that select finds ready: it holds a value, or its sender is gone
stop_ready(a) == stopSent[a] \/ a \in senderDropped

\* lines 198-215: the temporary directory and the kernel are there, and the
\* task waits in select
AttemptLoad ==
  \E a \in Candidates :
    /\ attemptPc[a] = "load"
    /\ AttemptStep(a, "select")
    /\ UNCHANGED <<toPoke, minedPokes>>

\* lines 199-213: one of the expect calls panics and the task ends
AttemptPanic ==
  \E a \in Candidates :
    /\ attemptPc[a] = "load"
    /\ AttemptStep(a, "panicked")
    /\ UNCHANGED <<toPoke, minedPokes>>

\* lines 218-223: the mining kernel answers the poke, which wakes the task.
\* The poke begins at the first poll of select, where a stop_rx that is ready
\* already is the branch taken.
KernelPokeCompletes ==
  \E a \in Candidates :
    /\ attemptPc[a] = "select"
    /\ ~stop_ready(a)
    /\ AttemptStep(a, "ready")
    /\ UNCHANGED <<toPoke, minedPokes>>

\* lines 215-224: select polls the branches in an order it picks and takes
\* the poke's; the effects hold some number of `command` cells
AttemptPoked ==
  \E a \in Candidates, commands \in 0..MaxCommands :
    /\ attemptPc[a] = "ready"
    /\ AttemptStep(a, "effects")
    /\ toPoke' = [toPoke EXCEPT ![a] = commands]
    /\ UNCHANGED minedPokes

\* lines 239-245: stop_rx is ready and select takes its branch: the kernel is
\* stopped and the task returns
AttemptStopped ==
  \E a \in Candidates :
    /\ attemptPc[a] \in {"select", "ready"}
    /\ stop_ready(a)
    /\ AttemptStep(a, "stopped")
    /\ UNCHANGED <<toPoke, minedPokes>>

\* lines 225-236: one turn of the loop over the effects that pokes `mined`
AttemptMined ==
  \E a \in Candidates :
    /\ attemptPc[a] = "effects"
    /\ toPoke[a] > 0
    /\ AttemptStep(a, "effects")
    /\ toPoke' = [toPoke EXCEPT ![a] = toPoke[a] - 1]
    /\ minedPokes' = minedPokes \cup {[attempt |-> a, stop_sent |-> stopSent[a]]}

\* lines 225-237: the loop over the effects ends, and the task with it
AttemptDone ==
  \E a \in Candidates :
    /\ attemptPc[a] = "effects"
    /\ toPoke[a] = 0
    /\ AttemptStep(a, "done")
    /\ UNCHANGED <<toPoke, minedPokes>>

AttemptNext ==
  \/ AttemptLoad \/ AttemptPanic \/ KernelPokeCompletes \/ AttemptPoked
  \/ AttemptStopped \/ AttemptMined \/ AttemptDone

MineNext == MineEffect \/ JoinNext \/ AttemptNext

(***************************************************************************)
(* The kernel pool (nockchain/src/mining_pool.rs)                          *)
(*                                                                         *)
(* Callers run get_or_create and return_kernel side by side on one pool.   *)
(* A kernel is a value that is moved, never copied: a caller returns only  *)
(* a kernel it holds.  create_fn is the caller's: it yields a new kernel   *)
(* or an error.                                                            *)
(***************************************************************************)

NumCallers == 2
MaxKernels == 3

Callers == 1..NumCallers

\* a look at the pool that leaves the kernel in it
pool_peek(kernel_opt) == kernel_opt

\* line 29: kernel_opt.take(), the value left in the pool
pool_take(kernel_opt) == None

\* lines 40-43: if kernel_opt.is_none() { *kernel_opt = Some(kernel_data) }
return_if_none(kernel_opt, kernel_data) ==
  IF kernel_opt = None THEN Some(kernel_data) ELSE kernel_opt

KernelPoolInit ==
  /\ kernel = None
  /\ kernelLock = 0
  /\ callerPc = [t \in Callers |-> "idle"]
  /\ held = [t \in Callers |-> {}]
  /\ kernelsCreated = 0
  /\ discarded = {}
  /\ lastResult = [t \in Callers |-> None]

KernelPoolIdle ==
  /\ kernel = None
  /\ kernelLock = 0
  /\ callerPc = <<>>
  /\ held = <<>>
  /\ kernelsCreated = 0
  /\ discarded = {}
  /\ lastResult = <<>>

\* lines 27-31: the lock is taken and the pool holds a kernel, which is
\* handed to the caller; the guard is dropped with the return
GetPooled ==
  \E t \in Callers :
    /\ callerPc[t] = "idle" /\ kernelLock = 0
    /\ kernel # None
    /\ held' = [held EXCEPT ![t] = held[t] \cup {kernel[1]}]
    /\ lastResult' = [lastResult EXCEPT ![t] = Some(kernel[1])]
    /\ kernel' = pool_take(kernel)
    /\ UNCHANGED <<kernelLock, callerPc, kernelsCreated, discarded>>
    /\ UNCHANGED <<jetVars, mineVars, memVars, tblVars, bumpVars>>

\* lines 27-34: the lock is taken, the pool is empty, and create_fn is
\* awaited with the lock held
GetCreateBegin ==
  \E t \in Callers :
    /\ callerPc[t] = "idle" /\ kernelLock = 0
    /\ kernel = None
    /\ kernelLock' = t
    /\ callerPc' = [callerPc EXCEPT ![t] = "create"]
    /\ UNCHANGED <<kernel, held, kernelsCreated, discarded, lastResult>>
    /\ UNCHANGED <<jetVars, mineVars, memVars, tblVars, bumpVars>>

\* line 34: create_fn yields a new kernel, which is the result
GetCreateOk ==
  \E t \in Callers :
    /\ callerPc[t] = "create"
    /\ kernelsCreated < MaxKernels
    /\ kernelsCreated' = kernelsCreated + 1
    /\ held' = [held EXCEPT ![t] = held[t] \cup {kernelsCreated'}]
    /\ lastResult' = [lastResult EXCEPT ![t] = Some(kernelsCreated')]
    /\ kernelLock' = 0
    /\ callerPc' = [callerPc EXCEPT ![t] = "idle"]
    /\ UNCHANGED <<kernel, discarded>>
    /\ UNCHANGED <<jetVars, mineVars, memVars, tblVars, bumpVars>>

\* line 34: create_fn yields an error, which is the result
GetCreateErr ==
  \E t \in Callers :
    /\ callerPc[t] = "create"
    /\ lastResult' = [lastResult EXCEPT ![t] = Some(0)]
    /\ kernelLock' = 0
    /\ callerPc' = [callerPc EXCEPT ![t] = "idle"]
    /\ UNCHANGED <<kernel, held, kernelsCreated, discarded>>
    /\ UNCHANGED <<jetVars, mineVars, memVars, tblVars, bumpVars>>

\* lines 38-44: a caller gives a kernel it holds to return_kernel; one that
\* is not stored is dropped at the end of the function
ReturnKernel ==
  \E t \in Callers :
    /\ callerPc[t] = "idle" /\ kernelLock = 0
    /\ \E kernel_data \in held[t] :
         /\ held' = [held EXCEPT ![t] = held[t] \ {kernel_data}]
         /\ kernel' = return_if_none(kernel, kernel_data)
         /\ discarded' = IF kernel' = Some(kernel_data) THEN discarded
                                                        ELSE discarded \cup {kernel_data}
    /\ UNCHANGED <<kernelLock, callerPc, kernelsCreated, lastResult>>
    /\ UNCHANGED <<jetVars, mineVars, memVars, tblVars, bumpVars>>

KernelPoolNext == GetPooled \/ GetCreateBegin \/ GetCreateOk \/ GetCreateErr \/ ReturnKernel

(***************************************************************************)
(* The memory pools (hoonc/src/memory_pool.rs)                             *)
(*                                                                         *)
(* Threads call init_memory_pools, PooledVec::new and drop a PooledVec;    *)
(* each takes the lock of one pool at a time.  A Vec<u64> is held as its   *)
(* length and the places that are not zero: nz is a set of                 *)
(* <<index, value>> pairs.                                                 *)
(***************************************************************************)

SMALL_MAX == 1024
MEDIUM_MAX == 65536
SMALL_KEEP == 100
MEDIUM_KEEP == 50
LARGE_KEEP == 10
INIT_SMALL == 20
INIT_MEDIUM == 10

MaxLive == 1
MaxNews == 2

Slots == 1..MaxLive

\* the sizes asked for: the ends of the three classes
Sizes == {SMALL_MAX, SMALL_MAX + 1, MEDIUM_MAX, MEDIUM_MAX + 1}

\* lines 27-31
size_class_of(size) ==
  IF size <= SMALL_MAX THEN "Small"
  ELSE IF size <= MEDIUM_MAX THEN "Medium" ELSE "Large"

\* vec![0u64; size]
vec_zeros(size) == [len |-> size, nz |-> {}]

\* a clear that leaves the vector as it is
vec_clear_kept(v) == v

\* line 37: v.clear()
vec_clear(v) == [len |-> 0, nz |-> {}]

\* line 37: v.resize(size, 0) truncates, or appends zeros
vec_resize(v, size) == [len |-> size, nz |-> {e \in v.nz : e[1] < size}]

\* lines 33-52: pop_front().map(clear, resize).unwrap_or_else(vec![0; size])
new_data(pool, size) ==
  IF pool # <<>> THEN vec_resize(vec_clear(Head(pool)), size) ELSE vec_zeros(size)

\* lines 74-76, 80-82, 86-88: if pool.len() < keep { pool.push_back(data) }
push_if_room(pool, keep, data) ==
  IF Len(pool) < keep THEN Append(pool, data) ELSE pool

\* as_mut_slice()[index] = value
vec_write(v, index, value) ==
  [len |-> v.len,
   nz |-> {e \in v.nz : e[1] # index} \cup (IF value # 0 THEN {<<index, value>>} ELSE {})]

MemInit ==
  /\ memPc = "run"
  /\ SMALL_POOL = <<>>
  /\ MEDIUM_POOL = <<>>
  /\ LARGE_POOL = <<>>
  /\ pooled = [s \in Slots |-> None]
  /\ memInits = 0
  /\ memNews = 0

MemIdle ==
  /\ memPc = "idle"
  /\ SMALL_POOL = <<>>
  /\ MEDIUM_POOL = <<>>
  /\ LARGE_POOL = <<>>
  /\ pooled = <<>>
  /\ memInits = 0
  /\ memNews = 0

MemUnchanged == UNCHANGED <<jetVars, mineVars, kpoolVars, tblVars, bumpVars>>

\* lines 117-136: init_memory_pools. Its two blocks take one lock each and
\* touch different pools, so a step of another thread between them is the
\* same as one before or after both. The callers stop once a pool is
\* longer than its limit.
InitMemoryPools ==
  /\ memPc = "run"
  /\ Len(SMALL_POOL) <= SMALL_KEEP /\ Len(MEDIUM_POOL) <= MEDIUM_KEEP
  /\ memInits' = memInits + 1
  /\ SMALL_POOL' = SMALL_POOL \o [k \in 1..INIT_SMALL |-> vec_zeros(SMALL_MAX)]
  /\ MEDIUM_POOL' = MEDIUM_POOL \o [k \in 1..INIT_MEDIUM |-> vec_zeros(MEDIUM_MAX)]
  /\ UNCHANGED <<memPc, LARGE_POOL, pooled, memNews>>
  /\ MemUnchanged

\* lines 26-55: PooledVec::new(size). asked is the size the caller gave and
\* reused says that the vector came out of a pool with values in it; the
\* new value takes the first free slot.
PooledVecNew ==
  /\ memPc = "run"
  /\ memNews < MaxNews
  /\ memNews' = memNews + 1
  /\ \E s \in Slots, size \in Sizes :
       LET size_class == size_class_of(size)
           pool == CASE size_class = "Small" -> SMALL_POOL
                     [] size_class = "Medium" -> MEDIUM_POOL
                     [] OTHER -> LARGE_POOL
       IN /\ pooled[s] = None /\ \A r \in 1..(s - 1) : pooled[r] # None
          /\ pooled' = [pooled EXCEPT ![s] =
                          Some([data |-> new_data(pool, size), size_class |-> size_class,
                                asked |-> size,
                                reused |-> pool # <<>> /\ Head(pool).nz # {}])]
          /\ SMALL_POOL' = IF size_class = "Small" /\ pool # <<>> THEN Tail(pool) ELSE SMALL_POOL
          /\ MEDIUM_POOL' = IF size_class = "Medium" /\ pool # <<>> THEN Tail(pool) ELSE MEDIUM_POOL
          /\ LARGE_POOL' = IF size_class = "Large" /\ pool # <<>> THEN Tail(pool) ELSE LARGE_POOL
  /\ UNCHANGED <<memPc, memInits>>
  /\ MemUnchanged

\* lines 61-63: the owner writes vec.as_mut_slice()[0], once
PooledVecWrite ==
  /\ memPc = "run"
  /\ \E s \in Slots :
       /\ pooled[s] # None
       /\ pooled[s][1].data.len > 0
       /\ pooled[s][1].data.nz = {}
       /\ pooled' = [pooled EXCEPT ![s] =
            Some([pooled[s][1] EXCEPT !.data = vec_write(pooled[s][1].data, 0, s)])]
  /\ UNCHANGED <<memPc, SMALL_POOL, MEDIUM_POOL, LARGE_POOL, memInits, memNews>>
  /\ MemUnchanged

\* lines 66-92: drop
PooledVecDrop ==
  /\ memPc = "run"
  /\ \E s \in Slots :
       /\ pooled[s] # None
       /\ LET self == pooled[s][1] IN
            /\ SMALL_POOL' = IF self.size_class = "Small"
                               THEN push_if_room(SMALL_POOL, SMALL_KEEP, self.data) ELSE SMALL_POOL
            /\ MEDIUM_POOL' = IF self.size_class = "Medium"
                                THEN push_if_room(MEDIUM_POOL, MEDIUM_KEEP, self.data) ELSE MEDIUM_POOL
            /\ LARGE_POOL' = IF self.size_class = "Large"
                               THEN push_if_room(LARGE_POOL, LARGE_KEEP, self.data) ELSE LARGE_POOL
       /\ pooled' = [pooled EXCEPT ![s] = None]
  /\ UNCHANGED <<memPc, memInits, memNews>>
  /\ MemUnchanged

MemNext == InitMemoryPools \/ PooledVecNew \/ PooledVecWrite \/ PooledVecDrop

(***************************************************************************)
(* The streaming prover (hoonc/src/streaming_prover.rs)                    *)
(*                                                                         *)
(* build_table_streaming is run for a number of rows and columns, a chunk  *)
(* size of the prover and a row generator that yields num_cols values for  *)
(* every row index.                                                        *)
(***************************************************************************)

MaxTableRows == 4
MaxCols == 2
MaxChunk == 3

\* the row generators: generator g yields a row of num_cols values that name
\* the generator, the row and the column
row_generator(g, r, cols) ==
  [c \in 1..cols |-> g * (MaxTableRows + 1) * (MaxCols + 1) + r * (MaxCols + 1) + c]

\* a chunk end that is not held to the number of rows
chunk_end_unclamped(start, size, rows) == start + size

\* line 35: (chunk_start + self.chunk_size).min(num_rows)
chunk_end_of(start, size, rows) == IF start + size < rows THEN start + size ELSE rows

\* lines 46-50: result[col].push(chunk_data[row * num_cols + col]) for every
\* row of the chunk and every column
transpose_chunk(res, data, chunk_rows, cols) ==
  [col \in 1..cols |->
     res[col] \o [row \in 1..chunk_rows |-> data[(row - 1) * cols + col]]]

TableInit ==
  /\ tblPc = "chunk"
  /\ tbl_num_rows \in 0..MaxTableRows
  /\ tbl_num_cols \in 0..MaxCols
  /\ chunk_size \in 1..MaxChunk
  /\ gen \in 1..2
  /\ chunk_start = 0
  /\ row_idx = 0
  /\ chunk_data = <<>>
  /\ tbl_result = [c \in 1..tbl_num_cols |-> <<>>]
  /\ genCalls = <<>>

TableIdle ==
  /\ tblPc = "idle"
  /\ tbl_num_rows = 0
  /\ tbl_num_cols = 0
  /\ chunk_size = 1
  /\ gen = 1
  /\ chunk_start = 0
  /\ row_idx = 0
  /\ chunk_data = <<>>
  /\ tbl_result = <<>>
  /\ genCalls = <<>>

\* lines 34-38: the next chunk begins
ChunkBegin ==
  /\ tblPc = "chunk"
  /\ chunk_start < tbl_num_rows
  /\ tblPc' = "rows"
  /\ row_idx' = chunk_start
  /\ chunk_data' = <<>>
  /\ UNCHANGED <<tbl_num_rows, tbl_num_cols, chunk_size, gen, chunk_start, tbl_result, genCalls>>
  /\ UNCHANGED <<jetVars, mineVars, kpoolVars, memVars, bumpVars>>

\* lines 40-43: one row of the chunk is generated
RowGenerate ==
  /\ tblPc = "rows"
  /\ row_idx < chunk_end_of(chunk_start, chunk_size, tbl_num_rows)
  /\ chunk_data' = chunk_data \o row_generator(gen, row_idx, tbl_num_cols)
  /\ genCalls' = Append(genCalls, row_idx)
  /\ row_idx' = row_idx + 1
  /\ UNCHANGED <<tblPc, tbl_num_rows, tbl_num_cols, chunk_size, gen, chunk_start, tbl_result>>
  /\ UNCHANGED <<jetVars, mineVars, kpoolVars, memVars, bumpVars>>

\* lines 45-53: the chunk is transposed onto the columns
ChunkTranspose ==
  /\ tblPc = "rows"
  /\ row_idx >= chunk_end_of(chunk_start, chunk_size, tbl_num_rows)
  /\ tbl_result' = transpose_chunk(tbl_result, chunk_data,
                               chunk_end_of(chunk_start, chunk_size, tbl_num_rows) - chunk_start,
                               tbl_num_cols)
  /\ chunk_start' = chunk_start + chunk_size
  /\ tblPc' = "chunk"
  /\ UNCHANGED <<tbl_num_rows, tbl_num_cols, chunk_size, gen, row_idx, chunk_data, genCalls>>
  /\ UNCHANGED <<jetVars, mineVars, kpoolVars, memVars, bumpVars>>

\* lines 34, 56: no chunk is left and the columns are returned
TableReturn ==
  /\ tblPc = "chunk"
  /\ chunk_start >= tbl_num_rows
  /\ tblPc' = "done"
  /\ UNCHANGED <<tbl_num_rows, tbl_num_cols, chunk_size, gen, chunk_start, row_idx, chunk_data,
                 tbl_result, genCalls>>
  /\ UNCHANGED <<jetVars, mineVars, kpoolVars, memVars, bumpVars>>

TableNext == ChunkBegin \/ RowGenerate \/ ChunkTranspose \/ TableReturn

(***************************************************************************)
(* The bump allocator (hoonc/src/memory_pool.rs, lines 94-114) under       *)
(* interpolate_streaming (hoonc/src/streaming_prover.rs, lines 59-75)      *)
(*                                                                         *)
(* Threads call interpolate_streaming side by side.  TempAllocator::new    *)
(* holds the lock of BUMP_ALLOCATOR only while it copies the reference;    *)
(* alloc_slice works through that reference without the lock.  A reset     *)
(* ends the life of every slice allocated before it: epoch counts the      *)
(* resets, and a workspace is known by the epoch of its allocation.        *)
(***************************************************************************)

NumProvers == 2
MaxInterpolations == 4

Provers == 1..NumProvers

BumpInit ==
  /\ proverPc = [t \in Provers |-> "idle"]
  /\ workspace = [t \in Provers |-> None]
  /\ epoch = 0
  /\ interpolations = 0
  /\ staleUse = {}

BumpIdle ==
  /\ proverPc = <<>>
  /\ workspace = <<>>
  /\ epoch = 0
  /\ interpolations = 0
  /\ staleUse = {}

ProverStep(t, pc) ==
  /\ proverPc' = [proverPc EXCEPT ![t] = pc]
  /\ UNCHANGED <<jetVars, mineVars, kpoolVars, memVars, tblVars>>

\* streaming_prover.rs 60-65, memory_pool.rs 100-105: the result is made and
\* TempAllocator::new copies the reference to the Bump under the lock
TempAllocatorNew ==
  \E t \in Provers :
    /\ proverPc[t] = "idle"
    /\ interpolations < MaxInterpolations
    /\ interpolations' = interpolations + 1
    /\ ProverStep(t, "alloc")
    /\ UNCHANGED <<workspace, epoch, staleUse>>

\* memory_pool.rs 107-109: alloc_slice enters the Bump, with no lock
AllocSliceBegin ==
  \E t \in Provers :
    /\ proverPc[t] = "alloc"
    /\ ProverStep(t, "allocating")
    /\ UNCHANGED <<workspace, epoch, interpolations, staleUse>>

\* memory_pool.rs 107-109: alloc_slice returns the slice
AllocSliceEnd ==
  \E t \in Provers :
    /\ proverPc[t] = "allocating"
    /\ workspace' = [workspace EXCEPT ![t] = Some(epoch)]
    /\ ProverStep(t, "fft")
    /\ UNCHANGED <<epoch, interpolations, staleUse>>

\* streaming_prover.rs 69, 78-93: fft_chunked works with the workspace
FftChunked ==
  \E t \in Provers :
    /\ proverPc[t] = "fft"
    /\ staleUse' = IF workspace[t] # Some(epoch) THEN staleUse \cup {t} ELSE staleUse
    /\ ProverStep(t, "reset")
    /\ UNCHANGED <<workspace, epoch, interpolations>>

\* streaming_prover.rs 72-74, memory_pool.rs 111-113: TempAllocator::reset
\* under the lock, and the call returns
TempAllocatorReset ==
  \E t \in Provers :
    /\ proverPc[t] = "reset"
    /\ epoch' = epoch + 1
    /\ workspace' = [workspace EXCEPT ![t] = None]
    /\ ProverStep(t, "idle")
    /\ UNCHANGED <<interpolations, staleUse>>

BumpNext ==
  TempAllocatorNew \/ AllocSliceBegin \/ AllocSliceEnd \/ FftChunked \/ TempAllocatorReset

(***************************************************************************)
(* Specifications                                                          *)
(***************************************************************************)

JetIdle == MontIdle /\ HashIdle /\ MegaIdle /\ PermIdle /\ PolyIdle /\ MaryIdle
AppIdle == MineIdle /\ KernelPoolIdle /\ MemIdle /\ TableIdle /\ BumpIdle

InitMont == MontInit /\ HashIdle /\ MegaIdle /\ PermIdle /\ PolyIdle /\ MaryIdle /\ AppIdle
InitHash == HashInit /\ MontIdle /\ MegaIdle /\ PermIdle /\ PolyIdle /\ MaryIdle /\ AppIdle
InitMega == MegaInit /\ MontIdle /\ HashIdle /\ PermIdle /\ PolyIdle /\ MaryIdle /\ AppIdle
InitPerm == PermInit /\ MontIdle /\ HashIdle /\ MegaIdle /\ PolyIdle /\ MaryIdle /\ AppIdle
InitMary == MaryInit /\ MontIdle /\ HashIdle /\ MegaIdle /\ PermIdle /\ PolyIdle /\ AppIdle
InitPoly == PolyInit /\ MontIdle /\ HashIdle /\ MegaIdle /\ PermIdle /\ MaryIdle /\ AppIdle
InitMine == MineInit /\ JetIdle /\ KernelPoolIdle /\ MemIdle /\ TableIdle /\ BumpIdle
InitKernelPool == KernelPoolInit /\ JetIdle /\ MineIdle /\ MemIdle /\ TableIdle /\ BumpIdle
InitMem == MemInit /\ JetIdle /\ MineIdle /\ KernelPoolIdle /\ TableIdle /\ BumpIdle
InitTable == TableInit /\ JetIdle /\ MineIdle /\ KernelPoolIdle /\ MemIdle /\ BumpIdle
InitBump == BumpInit /\ JetIdle /\ MineIdle /\ KernelPoolIdle /\ MemIdle /\ TableIdle
SpecMont == InitMont /\ [][MontNext]_vars
SpecHash == InitHash /\ [][HashNext]_vars
SpecMega == InitMega /\ [][MegaNext]_vars
SpecPerm == InitPerm /\ [][PermNext]_vars
SpecMary == InitMary /\ [][MaryNext]_vars
SpecPoly == InitPoly /\ [][PolyNext]_vars
SpecMine == InitMine /\ [][MineNext]_vars
\* the runtime polls a task that can go on, and the driver's select takes a
\* branch that stays ready
SpecMineFair == SpecMine /\ WF_vars(AttemptNext) /\ WF_vars(JoinNext)

SpecKernelPool == InitKernelPool /\ [][KernelPoolNext]_vars

SpecMem == InitMem /\ [][MemNext]_vars

SpecTable == InitTable /\ [][TableNext]_vars
SpecBump == InitBump /\ [][BumpNext]_vars

Init == InitMont \/ InitHash \/ InitMega \/ InitPerm \/ InitMary \/ InitPoly \/ InitMine \/ InitKernelPool \/ InitMem \/ InitTable \/ InitBump
Next == MontNext \/ HashNext \/ MegaNext \/ PermNext \/ MaryNext \/ PolyNext \/ MineNext \/ KernelPoolNext \/ MemNext \/ TableNext \/ BumpNext
Spec == Init /\ [][Next]_vars

(***************************************************************************)
(* Claims about the sponge and the Montgomery arithmetic                   *)
(***************************************************************************)

HashPadded == hashPc \in {"montify", "absorb", "digest", "done"}

\* C1: for every canonical input of length L, hash_varlen pads it to
\* input ++ [1] ++ (RATE - (L mod RATE) - 1) zeros, so the padded length is
\* (floor(L/RATE)+1)*RATE, a positive multiple of RATE.
C1_PaddedLength ==
  HashPadded =>
    LET L == Len(hashInput)
    IN /\ input_vec = hashInput \o <<1>> \o Zeros(RATE - (L % RATE) - 1)
       /\ Len(input_vec) = ((L \div RATE) + 1) * RATE
       /\ Len(input_vec) > 0
       /\ Len(input_vec) % RATE = 0

C1_Witness ==
  /\ hashPc = "done"
  /\ Len(hashInput) = 2 * RATE
  /\ Len(input_vec) = 3 * RATE

\* block k of the padded input in Montgomery form
BlockOf(k) == SubSeq(input_montiplied, (k - 1) * RATE + 1, k * RATE)

\* C2: every RATE-sized block of the padded input is absorbed exactly once,
\* first to last: block k goes into lanes 0..RATE-1, the other lanes stay as
\* the previous permutation left them (zero before the first block), the
\* permutation runs once after each block, floor(L/RATE)+1 times in all, and
\* the digest is read through mont_reduction only after the last one.
C2_AbsorbInOrder ==
  /\ \A k \in 1..Len(spongeLog) :
        LET prev == IF k = 1 THEN Zeros(STATE_SIZE) ELSE spongeLog[k - 1]
        IN spongeLog[k] =
             permute([i \in 1..STATE_SIZE |->
                        IF i <= RATE THEN BlockOf(k)[i] ELSE prev[i]])
  /\ Len(spongeLog) <= (Len(hashInput) \div RATE) + 1
  /\ hashPc \in {"digest", "done"} =>
        /\ Len(spongeLog) = (Len(hashInput) \div RATE) + 1
        /\ Len(spongeLog) * RATE = Len(input_montiplied)
        /\ sponge = spongeLog[Len(spongeLog)]
  /\ hashPc # "done" => digest = <<>>
  /\ hashPc = "done" =>
        digest = [i \in 1..DIGEST_LENGTH |->
                    mont_reduction(spongeLog[Len(spongeLog)][i]).res]

C2_Witness ==
  /\ hashPc = "done"
  /\ Len(spongeLog) = 3
  /\ BlockOf(1) # BlockOf(2)
  /\ Len(digest) = DIGEST_LENGTH

\* C3: for every x < R*P, mont_reduction(x) is the canonical r < P with
\* r*R congruent to x mod P, and no subtraction on the way goes below zero.
C3_MontReduction ==
  /\ montPc = "reduced" =>
        /\ montVal < P
        /\ (montVal * R) % P = montIn % P
        /\ ~montUnderflow
  /\ montPc = "reduction_panic" => montIn >= RP

C3_Witness ==
  /\ montPc = "reduced"
  /\ montIn = RP - 1
  /\ montVal # montIn % P

\* C4: for every canonical x,
\* mont_reduction(montiply(montify(x), R mod P)) = x.
C4_MontRoundTrip ==
  /\ montPc = "round_trip_done" => montVal = montIn
  /\ montPc = "round_trip_panic" => ~based(montIn)

C4_Witness ==
  /\ montPc = "round_trip_done"
  /\ montIn = P - 1
  /\ montVal = P - 1

(***************************************************************************)
(* Claims about the substitution evaluator                                 *)
(***************************************************************************)

MegaDone == megaPc \in {"ok", "err", "panic"}

\* C5: every lookup failure met while a term with nonzero coefficient is
\* evaluated (a missing challenge or commitment id, a dynamic id past the
\* array, a trace slice outside the buffer, for every idx and height) makes
\* the operation return an error with no result; it never panics.
C5_LookupFailureIsError ==
  metLookupFailure => (megaPc = "err" /\ megaResult = <<>>)

\* the value a factor stands for at index j of the term value
FactorValue(ter, j, h) ==
  CASE ter.typ = "Var" -> trace_evals[ter.idx * 4 * h + j]
    [] ter.typ = "Rnd" -> chal_map[ter.idx]
    [] ter.typ = "Dyn" -> dyns[ter.idx + 1]
    [] ter.typ = "Con" -> 1
    [] ter.typ = "Com" -> com_map[ter.idx][j]

RECURSIVE PowMod(_, _)
PowMod(x, e) == IF e = 0 THEN 1 ELSE (x * PowMod(x, e - 1)) % P

FactorPow(ter, j, h) ==
  IF ter.typ = "Con" \/ ter.exp = 0 THEN 1
  ELSE PowMod(FactorValue(ter, j, h), ter.exp)

RECURSIVE Monomial(_, _, _, _)
Monomial(k, i, j, h) ==
  IF i > Len(k) THEN 1
  ELSE (FactorPow(k[i], j, h) * Monomial(k, i + 1, j, h)) % P

\* coefficient j of the sum of coefficient * term over the pairs i..
RECURSIVE WeightedSum(_, _, _, _)
WeightedSum(pairs, i, j, h) ==
  IF i > Len(pairs) THEN 0
  ELSE LET k == TermU[pairs[i].t]
           here == IF pairs[i].v = 0 \/ j > Len(k) THEN 0
                   ELSE (pairs[i].v * Monomial(k, 1, j, h)) % P
       IN (here + WeightedSum(pairs, i + 1, j, h)) % P

RECURSIVE MaxArity(_, _)
MaxArity(pairs, i) ==
  IF i > Len(pairs) THEN 1
  ELSE Max(IF pairs[i].v = 0 THEN 1 ELSE Len(TermU[pairs[i].t]),
           MaxArity(pairs, i + 1))

\* C6: the returned polynomial is the weighted sum of the terms: each term
\* with nonzero coefficient is the all-ones polynomial of its arity times,
\* per factor, slice^e (Variable, Commitment), scalar^e (Random-challenge,
\* Dynamic) or 1 (Constant), scaled by the coefficient and added index-wise
\* to a total that starts as [0].
C6_WeightedSum ==
  megaPc = "ok" =>
    megaResult = [j \in 1..MaxArity(p_list, 1) |-> WeightedSum(p_list, 1, j, height)]

C6_Witness ==
  /\ megaPc = "ok"
  /\ Len(p_list) = 2
  /\ p_list[1] = [t |-> 4, v |-> 2]
  /\ p_list[2] = [t |-> 5, v |-> P - 1]
  /\ megaResult[1] # megaResult[2]

\* C7: a single term with an empty factor list and coefficient c evaluates
\* to the one-element polynomial [c].
C7_EmptyTerm ==
  (megaPc = "ok" /\ Len(p_list) = 1 /\ TermU[p_list[1].t] = <<>>) =>
    megaResult = <<p_list[1].v>>

\* C8: a term whose coefficient is zero is skipped: none of its factors is
\* looked up, so it cannot make the operation fail, and the running total
\* keeps its value and its length.
C8_ZeroCoefficientSkipped ==
  [][(megaPc = "fold" /\ p_pos <= Len(p_list) /\ p_list[p_pos].v = 0) =>
       /\ megaPc' = "fold"
       /\ p_pos' = p_pos + 1
       /\ acc_vec' = acc_vec
       /\ metLookupFailure' = metLookupFailure]_vars

C8_Witness ==
  /\ megaPc = "ok"
  /\ Len(p_list) = 2
  /\ p_list[1] = [t |-> 6, v |-> 0]
  /\ LookupFails(TermU[6][2], height)
  /\ p_list[2] = [t |-> 4, v |-> 2]
  /\ Len(megaResult) = 4

\* the pairs of a set in the order of their terms
RECURSIVE InTermOrder(_)
InTermOrder(S) ==
  IF S = {} THEN <<>>
  ELSE LET m == CHOOSE x \in S : \A y \in S : x.t <= y.t
       IN <<m>> \o InTermOrder(S \ {m})

\* the fold over the pairs i.. of a list
RECURSIVE fold_all(_, _, _, _, _)
fold_all(pairs, i, acc, h, checks) ==
  IF i > Len(pairs) THEN [status |-> "ok", acc |-> acc]
  ELSE LET r == fold_step(acc, TermU[pairs[i].t], pairs[i].v, h, checks)
       IN IF r.status # "ok" THEN [status |-> r.status, acc |-> acc]
          ELSE fold_all(pairs, i + 1, r.acc, h, checks)

\* the returned polynomial, or <<>> for the fact that the operation fails
Outcome(status, result) == IF status = "ok" THEN result ELSE <<>>

\* C9: the outcome (the returned polynomial with its length, or the fact
\* that the operation fails) is the same for every order of the same pairs.
C9_OrderIndependent ==
  MegaDone =>
    LET o == fold_all(InTermOrder({p_list[i] : i \in DOMAIN p_list}), 1,
                      zero_bpoly, height, overflow_checks)
    IN Outcome(megaPc, megaResult) = Outcome(o.status, o.acc)

C9_Witness ==
  /\ megaPc = "ok"
  /\ Len(p_list) = 2
  /\ p_list[1] = [t |-> 4, v |-> P - 1]
  /\ p_list[2] = [t |-> 2, v |-> 2]
  /\ Len(megaResult) = 4

RECURSIVE MaxOfSeq(_, _)
MaxOfSeq(s, i) == IF i > Len(s) THEN 1 ELSE Max(s[i], MaxOfSeq(s, i + 1))

\* C10: the running total never gets shorter: after each term that is not
\* skipped its length is the maximum of its previous length and the length
\* of that term's scaled value, so the result has length
\* max(1, the longest term value of a nonzero coefficient).
C10_TotalLength ==
  /\ Len(acc_vec) = MaxOfSeq(termLens, 1)
  /\ Len(termLens) = Cardinality({i \in 1..(p_pos - 1) : p_list[i].v # 0})
  /\ megaPc = "ok" => Len(megaResult) = MaxOfSeq(termLens, 1)

C10_Witness ==
  /\ megaPc = "ok"
  /\ termLens = <<4, 1>>
  /\ Len(megaResult) = 4

(***************************************************************************)
(* Claims about the permutation jet                                        *)
(***************************************************************************)

\* the cases of the claim: the sample is an atom, or a list (cells up to the
\* first atom) with fewer or more than 16 heads, or with a head that is no
\* u64 atom
NotSixteenU64(sample) ==
  \/ is_atom(sample.heads)
  \/ Len(sample.heads) # STATE_SIZE
  \/ \E k \in 1..Len(sample.heads) : sample.heads[k].kind # "u64"

\* C11: for every sample that is not a list of exactly 16 u64 atoms (an
\* atom, a shorter list, a longer list) the permutation jet ends in the
\* decode error without output: it neither panics nor returns lanes.
C11_DecodeErrorOnBadShape ==
  NotSixteenU64(perm_sample) =>
     /\ permPc \in {"call", "loop", "err"}
     /\ new_sponge = <<>>

(***************************************************************************)
(* Claims about the matrix jets                                            *)
(***************************************************************************)

\* the r-th row of a mary
Row(m, r) == SubSeq(m.dat, (r - 1) * m.step + 1, r * m.step)

IsTranspose(c) == c.jet \in {"transpose", "transpose_bpolys"}

\* C13: weld of two marys of different step returns the error and no mary;
\* weld of two marys of the same step returns a mary of that step with
\* len1 + len2 rows, the rows of the first followed by the rows of the
\* second.
C13_Weld ==
  \A n \in 1..Len(maryCalls) :
    LET c == maryCalls[n] IN
      c.jet = "weld" =>
        IF c.arg.step # ma2.step
          THEN c.out.status = "err" /\ c.out.val = <<>>
          ELSE /\ c.out.status = "ok"
               /\ c.out.val.step = c.arg.step
               /\ c.out.val.len = c.arg.len + ma2.len
               /\ Len(c.out.val.dat) = c.out.val.step * c.out.val.len
               /\ \A r \in 1..c.out.val.len :
                    Row(c.out.val, r) = IF r <= c.arg.len
                                          THEN Row(c.arg, r)
                                          ELSE Row(ma2, r - c.arg.len)

C13_Witness ==
  /\ Len(maryCalls) = 1
  /\ maryCalls[1].jet = "weld"
  /\ ma.step = 2 /\ ma.len = 2 /\ ma2.step = 2 /\ ma2.len = 1
  /\ maryCalls[1].out.status = "ok"
  /\ maryCalls[1].out.val.dat = <<1, 2, 3, 4, 101, 102>>

\* the two calls are transposes of the door's mary, the first with an offset
\* k >= 1 that divides its step
TwoTransposes ==
  /\ Len(maryCalls) = 2
  /\ IsTranspose(maryCalls[1]) /\ IsTranspose(maryCalls[2])
  /\ maryCalls[1].offset >= 1
  /\ ma.step % maryCalls[1].offset = 0

\* C20 as stated: transpose(transpose(m, k), step / k) is m again, for a
\* mary m of at least one row and one column and an offset k that divides
\* its step.
C20_TransposeRoundTrip ==
  (/\ TwoTransposes
   /\ ma.step >= 1 /\ ma.len >= 1
   /\ maryCalls[2].offset = ma.step \div maryCalls[1].offset)
    => maryCalls[2].out = Value(ma)

\* C20 amended: transpose(m, k) has step len * k and len step / k, and
\* a second transpose with the same offset k gives m again (same step,
\* same len, same contents).
C20_TransposeTwice ==
  TwoTransposes =>
    /\ maryCalls[1].out.status = "ok"
    /\ maryCalls[1].out.val.step = ma.len * maryCalls[1].offset
    /\ maryCalls[1].out.val.len = ma.step \div maryCalls[1].offset
    /\ maryCalls[2].offset = maryCalls[1].offset => maryCalls[2].out = Value(ma)

C20_Witness ==
  /\ TwoTransposes
  /\ ma.step = 4 /\ ma.len = 3
  /\ maryCalls[1].offset = 2 /\ maryCalls[2].offset = 2
  /\ maryCalls[1].out.val.dat = <<1, 2, 5, 6, 9, 10, 3, 4, 7, 8, 11, 12>>
  /\ maryCalls[2].out.val = ma

(***************************************************************************)
(* Claims about the polynomial jets                                        *)
(***************************************************************************)

PowerOfTwo(n) == \E k \in 0..n : n = 2 ^ k

PolyCalled(n, jets) == n \in 1..Len(polyCalls) /\ polyCalls[n].jet \in jets

\* C12: a Hadamard product of operands of different length, and a
\* transform (fft, ifft) of a length that is no power of two (0 included),
\* each return the error and no output; none is a panic.
C12_PreconditionIsError ==
  \A n \in 1..Len(polyCalls) :
    LET c == polyCalls[n] IN
      /\ (c.jet = "bp_hadamard" /\ Len(c.p) # Len(poly_q))
            => c.out = Failed("err")
      /\ (c.jet \in {"fp_fft", "fp_ifft"} /\ ~PowerOfTwo(Len(c.p)))
            => c.out = Failed("err")

\* C14: the product of two nonempty Felt polynomials p and q has length
\* len(p) + len(q) - 1, except that it is the one-element zero polynomial
\* when p or q is the zero polynomial [0].
C14_MulLength ==
  \A n \in 1..Len(polyCalls) :
    LET c == polyCalls[n] IN
      (c.jet = "fp_mul" /\ c.p # <<>> /\ poly_q # <<>>) =>
        /\ c.out.status = "ok"
        /\ IF c.p = <<felt_zero>> \/ poly_q = <<felt_zero>>
             THEN c.out.val = <<felt_zero>>
             ELSE Len(c.out.val) = Len(c.p) + Len(poly_q) - 1

\* C15: on a polynomial whose length is a power of two within the root
\* table, fft and ifft return a polynomial of that length, and each undoes
\* the other: fft(ifft(p)) = p and ifft(fft(p)) = p.
C15_TransformRoundTrip ==
  \A n \in 1..Len(polyCalls) :
    LET c == polyCalls[n] IN
      (c.jet \in {"fp_fft", "fp_ifft"} /\ PowerOfTwo(Len(c.p))) =>
        /\ c.out.status = "ok"
        /\ Len(c.out.val) = Len(c.p)
        /\ (n >= 2 /\ polyCalls[n - 1].jet \in {"fp_fft", "fp_ifft"} \ {c.jet})
              => c.out.val = polyCalls[n - 1].p

C15_Witness ==
  /\ Len(polyCalls) = 2
  /\ polyCalls[1].jet = "fp_ifft" /\ polyCalls[2].jet = "fp_fft"
  /\ poly_p = <<felt_one, <<2, 1, 0>>, felt_zero, <<2, 1, 0>>>>
  /\ polyCalls[1].out.val # poly_p
  /\ polyCalls[2].out.val = poly_p

Distinct(s) == \A i, j \in 1..Len(s) : i # j => s[i] # s[j]

\* C16: interpolate(domain, values) returns the error when the two lengths
\* differ; for n >= 1 pairwise distinct domain points and n values it
\* returns a polynomial of length n whose Horner evaluation at domain[i] is
\* values[i], for every i.
C16_Interpolate ==
  \A n \in 1..Len(polyCalls) :
    LET c == polyCalls[n] IN
      /\ c.jet = "interpolate" =>
           IF Len(poly_p) # Len(poly_q)
             THEN c.out = Failed("err")
             ELSE (Len(poly_p) >= 1 /\ Distinct(poly_p)) =>
                    /\ c.out.status = "ok"
                    /\ Len(c.out.val) = Len(poly_p)
                    /\ \A i \in 1..Len(poly_p) :
                         fpeval_poly(c.out.val, poly_p[i]) = poly_q[i]
      /\ (c.jet = "fp_eval" /\ n >= 2 /\ polyCalls[n - 1].jet = "interpolate") =>
           \A i \in 1..Len(poly_p) :
             (Distinct(poly_p) /\ c.x = poly_p[i]) => c.out = Value(poly_q[i])

C16_Witness ==
  /\ Len(polyCalls) = 2
  /\ polyCalls[1].jet = "interpolate" /\ polyCalls[2].jet = "fp_eval"
  /\ poly_p = <<felt_one, <<2, 1, 0>>, felt_zero>>
  /\ poly_q = <<<<PRIME - 1, 0, 3>>, felt_zero, <<7, 5, 11>>>>
  /\ polyCalls[2].x = <<2, 1, 0>>
  /\ polyCalls[2].out = Value(felt_zero)
  /\ Len(polyCalls[1].out.val) = 3

\* C17: compose(p, [0,1]) is p, for every p, the empty and the one-element
\* polynomial included.
C17_ComposeIdentity ==
  \A n \in 1..Len(polyCalls) :
    LET c == polyCalls[n] IN
      (c.jet = "fpcompose" /\ poly_q = <<felt_zero, felt_one>>) => c.out = Value(c.p)

C17_Witness ==
  /\ PolyCalled(1, {"fpcompose"})
  /\ poly_q = <<felt_zero, felt_one>>
  /\ poly_p = <<<<2, 1, 0>>, felt_zero, felt_one, <<2, 1, 0>>>>
  /\ polyCalls[1].out.val = poly_p

\* the coefficient of x^(k-1) of a*b, a sum over the index pairs
RECURSIVE ConvSum(_, _, _, _)
ConvSum(a, b, k, i) ==
  IF i > Len(a) THEN felt_zero
  ELSE fadd(IF k + 1 - i \in 1..Len(b) THEN fmul(a[i], b[k + 1 - i]) ELSE felt_zero,
            ConvSum(a, b, k, i + 1))

Product(a, b) == [k \in 1..(Len(a) + Len(b) - 1) |-> ConvSum(a, b, k, 1)]

\* p(q(x)) by Horner's rule in q: (..(p[n]*q + p[n-1])*q + ..)*q + p[0]
RECURSIVE Horner(_, _, _)
Horner(p, q, i) ==
  IF i = Len(p) THEN <<p[i]>>
  ELSE LET t == Product(Horner(p, q, i + 1), q)
       IN [t EXCEPT ![1] = fadd(@, p[i])]

\* C18: compose(p, q) never fails; it returns the empty polynomial when p
\* or q is empty, and else the (len(p)-1)*(len(q)-1)+1 coefficients of
\* the sum of p[i]*q(x)^i: every power q^i, of length i*(len(q)-1)+1, fits
\* the result, so no term is cut.
C18_ComposeLength ==
  \A n \in 1..Len(polyCalls) :
    LET c == polyCalls[n] IN
      c.jet = "fpcompose" =>
        /\ c.out.status = "ok"
        /\ IF c.p = <<>> \/ poly_q = <<>>
             THEN c.out.val = <<>>
             ELSE /\ Len(c.out.val) = (Len(c.p) - 1) * (Len(poly_q) - 1) + 1
                  /\ c.out.val = Horner(c.p, poly_q, 1)
                  /\ \A i \in 0..(Len(c.p) - 1) :
                       i * (Len(poly_q) - 1) + 1 <= Len(c.out.val)

C18_Witness ==
  /\ PolyCalled(1, {"fpcompose"})
  /\ poly_p = <<felt_one, felt_zero, <<2, 1, 0>>>>
  /\ poly_q = <<<<PRIME - 1, 0, 3>>, felt_zero, <<7, 5, 11>>>>
  /\ Len(polyCalls[1].out.val) = 5
  /\ polyCalls[1].out.val[5] # felt_zero

\* the i-th coefficient, 0 past the end
FCoeff(p, i) == IF i <= Len(p) THEN p[i] ELSE felt_zero

\* C19: add(p, q) has length max(len(p), len(q)), its coefficient i is
\* p[i] + q[i] with 0 for a missing coefficient, add(q, p) is the same
\* polynomial, add([1,2,3], [4,5]) is [5,7,3], and the operands are what
\* they were.
C19_Add ==
  \A n \in 1..Len(polyCalls) :
    LET c == polyCalls[n] IN
      /\ c.jet = "fp_add" =>
           /\ c.out.status = "ok"
           /\ Len(c.out.val) = Max(Len(poly_p), Len(poly_q))
           /\ \A i \in 1..Len(c.out.val) :
                c.out.val[i] = fadd(FCoeff(poly_p, i), FCoeff(poly_q, i))
           /\ c.out.val = fpadd_poly(poly_q, poly_p)
           /\ c.p = poly_p
           /\ (poly_p = <<felt_from(1), felt_from(2), felt_from(3)>>
                 /\ poly_q = <<felt_from(4), felt_from(5)>>)
                => c.out.val = <<felt_from(5), felt_from(7), felt_from(3)>>
      /\ c.jet = "bpadd" =>
           /\ c.out.status = "ok"
           /\ Len(c.out.val) = Max(Len(poly_p), Len(poly_q))
           /\ \A i \in 1..Len(c.out.val) :
                c.out.val[i] = (Coeff(poly_p, i) + Coeff(poly_q, i)) % P
           /\ c.out = bpadd_jet(poly_q, poly_p)
           /\ c.p = poly_p
           /\ (poly_p = <<1, 2, 3>> /\ poly_q = <<4, 5>>) => c.out.val = <<5, 7, 3>>

C19_Witness ==
  /\ PolyCalled(1, {"fp_add"})
  /\ poly_p = <<felt_from(1), felt_from(2), felt_from(3)>>
  /\ poly_q = <<felt_from(4), felt_from(5)>>
  /\ polyCalls[1].out.val = <<felt_from(5), felt_from(7), felt_from(3)>>

\* C21: swag(mary, i, j) for j >= 1 on a mary with rows of at least one value: with
\* i + j <= len the result has the same step, j rows, and row r is row i + r
\* of the input; with i + j > len there is no result
C21_Swag ==
  \A n \in 1..Len(maryCalls) :
    LET c == maryCalls[n] IN
      (c.jet = "swag" /\ c.arg.step >= 1 /\ c.j >= 1) =>
        IF c.i + c.j <= c.arg.len
          THEN /\ c.out.status = "ok"
               /\ c.out.val.step = c.arg.step /\ c.out.val.len = c.j
               /\ Len(c.out.val.dat) = c.arg.step * c.j
               /\ \A r \in 1..c.j : Row(c.out.val, r) = Row(c.arg, c.i + r)
          ELSE c.out.status # "ok"
\* the tasks that were spawned and have not ended
Running == {a \in Candidates : attemptPc[a] \in {"load", "select", "ready", "effects"}}

\* C22: at most one mining attempt is in flight: the JoinSet holds at most
\* one task, and every task that has not been joined is in it
C22_OneAttemptInFlight ==
  minePc = "loop" =>
    /\ Cardinality(current_attempt) <= 1
    /\ {a \in Candidates : attemptPc[a] \notin {"none", "joined"}} = current_attempt

\* a second attempt is in flight and a later candidate waits for its end
C22_Witness ==
  /\ minePc = "loop"
  /\ \E a \in current_attempt : a >= 2 /\ a \in Running
  /\ next_attempt # None

\* C23: a `mine` effect handled while an attempt is in flight leaves that
\* attempt signalled; the driver's sender is the one of the attempt in
\* flight unless that attempt was signalled already; the sender of an
\* attempt in flight is never dropped without a send
C23_MineStopsCurrentWork ==
  /\ [][mineCount' # mineCount => \A a \in current_attempt : stopSent'[a]]_vars
  /\ [](\A a \in current_attempt : stopSent[a] \/ current_attempt_stop_tx = Some(a))
  /\ [](senderDropped \cap current_attempt = {})

\* an attempt was signalled while it ran, and the driver now holds the sender
\* of a channel whose receiver is gone
C23_Witness ==
  /\ \E a \in current_attempt : stopSent[a] /\ a \in Running
  /\ current_attempt_stop_tx = Some(0)

\* C24: a candidate is queued only while an attempt is in flight; a `mine`
\* effect that arrives while an attempt is in flight takes the place in the
\* queue; the join of the attempt starts the queued candidate; a replaced
\* candidate is never attempted; and every candidate received is in the end
\* attempted or replaced
C24_QueuedCandidate ==
  /\ [](next_attempt # None => current_attempt # {})
  /\ [][(mineCount' # mineCount /\ current_attempt # {})
          => (next_attempt' = Some(mineCount') /\ (next_attempt # None => next_attempt[1] \in replaced'))]_vars
  /\ [][(current_attempt' # current_attempt /\ mineCount' = mineCount /\ next_attempt # None)
          => (attemptPc'[next_attempt[1]] = "load" /\ next_attempt' = None)]_vars
  /\ [](\A c \in replaced : attemptPc[c] = "none")
  /\ \A c \in Candidates :
       (mineCount >= c) ~> (attemptPc[c] # "none" \/ c \in replaced)

\* a queued candidate was replaced, and a later one was started
C24_Witness ==
  \E c \in replaced : \E d \in Candidates : d > c /\ attemptPc[d] # "none"

Holders(k) == {t \in Callers : k \in held[t]}

\* C26: the pool holds at most one kernel, and a kernel is in one place: the
\* pool, one caller's hands, or dropped; a kernel taken from the pool goes to
\* one caller and leaves the pool; return_kernel on an occupied pool leaves
\* the stored kernel and drops the returned one; get_or_create on an empty
\* pool returns what create_fn yields and stores nothing
C26_KernelPool ==
  /\ [](Len(kernel) <= 1)
  /\ [](\A k \in 1..kernelsCreated :
          Cardinality(Holders(k)) + (IF kernel = Some(k) THEN 1 ELSE 0)
            + (IF k \in discarded THEN 1 ELSE 0) = 1)
  /\ [][\A t \in Callers :
          (held'[t] # held[t] /\ kernel # None /\ held[t] \subseteq held'[t])
            => /\ kernel' = None /\ held'[t] = held[t] \cup {kernel[1]}
               /\ lastResult'[t] = kernel
               /\ \A u \in Callers \ {t} : held'[u] = held[u]]_vars
  /\ [][\A t \in Callers :
          (held'[t] # held[t] /\ kernel # None /\ held'[t] \subseteq held[t])
            => /\ kernel' = kernel
               /\ held[t] \ held'[t] \subseteq discarded']_vars
  /\ [][\A t \in Callers :
          (callerPc[t] = "create" /\ callerPc'[t] = "idle")
            => /\ kernel = None /\ kernel' = None
               /\ lastResult'[t] \in {Some(0), Some(kernelsCreated')}
               /\ lastResult'[t] # Some(0) => (kernelsCreated' = kernelsCreated + 1
                                                /\ held'[t] = held[t] \cup {kernelsCreated'})]_vars

\* a kernel was handed out of the pool, and another one was dropped by a
\* return to the occupied pool
C26_Witness ==
  /\ \E t \in Callers : lastResult[t] # None /\ lastResult[t] # Some(0)
                         /\ lastResult[t] # Some(kernelsCreated) /\ lastResult[t][1] \in held[t]
  /\ discarded # {}
  /\ kernel # None
\* C27: the small pool holds at most 100 vectors, the medium pool at most 50
\* and the large pool at most 10
C27_PoolCaps ==
  /\ Len(SMALL_POOL) <= SMALL_KEEP
  /\ Len(MEDIUM_POOL) <= MEDIUM_KEEP
  /\ Len(LARGE_POOL) <= LARGE_KEEP

\* C28: PooledVec::new(size) yields size zeros, from a fresh vector or a
\* reused one; drop gives the vector to the pool of the class of the size it
\* was created with, or to none
C28_ZeroedAndSameClass ==
  /\ [][\A s \in Slots :
          (pooled[s] = None /\ pooled'[s] # None)
            => /\ pooled'[s][1].data = [len |-> pooled'[s][1].asked, nz |-> {}]
               /\ pooled'[s][1].size_class = size_class_of(pooled'[s][1].asked)]_vars
  /\ [][\A s \in Slots :
          (pooled[s] # None /\ pooled'[s] = None)
            => LET self == pooled[s][1]
                   class == IF self.asked <= SMALL_MAX THEN "Small"
                            ELSE IF self.asked <= MEDIUM_MAX THEN "Medium" ELSE "Large"
               IN /\ class # "Small" => SMALL_POOL' = SMALL_POOL
                  /\ class # "Medium" => MEDIUM_POOL' = MEDIUM_POOL
                  /\ class # "Large" => LARGE_POOL' = LARGE_POOL
                  /\ class = "Small" => SMALL_POOL' \in {SMALL_POOL, Append(SMALL_POOL, self.data)}
                  /\ class = "Medium" => MEDIUM_POOL' \in {MEDIUM_POOL, Append(MEDIUM_POOL, self.data)}
                  /\ class = "Large" => LARGE_POOL' \in {LARGE_POOL, Append(LARGE_POOL, self.data)}]_vars

\* a PooledVec of each class that reuses a vector a previous owner wrote into
C28_Witness ==
  \E s \in Slots :
    /\ pooled[s] # None /\ pooled[s][1].reused
    /\ pooled[s][1].size_class = "Large" /\ pooled[s][1].asked > 0
\* the columns of the rows 0..tbl_num_rows-1 of the generator, transposed at once
Transposed ==
  [c \in 1..tbl_num_cols |-> [r \in 1..tbl_num_rows |-> row_generator(gen, r - 1, tbl_num_cols)[c]]]

\* C29: build_table_streaming returns tbl_num_cols columns of tbl_num_rows entries
\* with tbl_result[c][r] = gen(r)[c], whatever the chunk size, and has called
\* the generator once for each row index, in ascending order; before it
\* returns, the calls are a prefix of that order
C29_StreamedTable ==
  /\ \A k \in 1..Len(genCalls) : genCalls[k] = k - 1
  /\ tblPc = "done" =>
       /\ Len(tbl_result) = tbl_num_cols
       /\ \A c \in 1..tbl_num_cols : Len(tbl_result[c]) = tbl_num_rows
       /\ tbl_result = Transposed
       /\ Len(genCalls) = tbl_num_rows

\* a table of more rows than a chunk, the last chunk a short one
C29_Witness ==
  /\ tblPc = "done"
  /\ tbl_num_rows > chunk_size /\ tbl_num_rows % chunk_size # 0 /\ tbl_num_cols >= 2
  /\ tbl_result = Transposed

\* C30: no thread works with a workspace after a reset of the Bump, the
\* Bump is not reset while a thread holds a workspace of the current epoch
\* other than the one that resets, and no two threads are inside alloc_slice
\* at the same time
C30_NoResetWhileInUse ==
  /\ staleUse = {}
  /\ \A t \in Provers : proverPc[t] = "fft" => workspace[t] = Some(epoch)
  /\ Cardinality({t \in Provers : proverPc[t] = "allocating"}) <= 1
====
